---- MODULE Spec2Model ----
(***************************************************************************)
(* Verification model of the Aadhaar enrolment analytics core:             *)
(*   - AadhaarDataCleaner.clean          (src/src/data_pipeline)           *)
(*   - AadhaarFeatureEngineer aggregates (src/src/data_pipeline)           *)
(*   - AadhaarAnomalyDetector.detect     (src/src/ml_pipeline)             *)
(* Tables are sequences of rows.  Text cells are sequences of one-letter   *)
(* strings so that str.title(), regular expressions and sorting can be     *)
(* computed letter by letter.  Numeric cells are <<>> (NaN) or <<v>>.      *)
(***************************************************************************)
EXTENDS Integers, Sequences, FiniteSets, TLC

VARIABLES
    columns,        \* cleaner: label carried by each column of df
    df,             \* cleaner: the table being cleaned (sequence of rows)
    raw,            \* cleaner: the table as it was handed to clean()
    pc,             \* cleaner: position inside clean()
    now,            \* cleaner: what pd.Timestamp.now() returns in this run
    run_now,        \* two runs: wall clock of each run
    run_out,        \* two runs: table returned by each run (or Pending)
    records,        \* aggregator: the cleaned record-level table
    aggregated,     \* aggregator: the state-month table (or NotRun)
    features_df,    \* detector: the caller's table object
    returned,       \* detector: the table object detect() returned
    handed,         \* detector: the table as it was handed to detect()
    model_type,     \* detector: config['model_type']
    scorer_df,      \* risk scorer
    weights,        \* risk scorer
    risk_components, \* risk scorer
    cluster_df,     \* clusterer
    n_clusters,     \* clusterer
    clustered,      \* clusterer
    source,         \* schema normalizer
    column_mapping, \* schema normalizer
    name_matched,   \* schema normalizer
    field_index,    \* schema normalizer
    standardized,   \* schema normalizer
    schema_out,     \* schema normalizer
    missing_columns, \* schema normalizer
    explain_df,     \* explain_anomalies
    explanations,   \* explain_anomalies
    describe_df,    \* cluster descriptions
    cluster_descriptions, \* cluster descriptions
    described,      \* cluster descriptions
    is_fitted       \* detector: AadhaarAnomalyDetector.is_fitted

vars == <<columns, df, raw, pc, now, run_now, run_out, records, aggregated,
          features_df, returned, handed, model_type, is_fitted,
          scorer_df, weights, risk_components,
          cluster_df, n_clusters, clustered,
          source, column_mapping, name_matched, field_index, standardized, schema_out, missing_columns,
          explain_df, explanations,
          describe_df, cluster_descriptions, described>>

cleanerVars  == <<columns, df, raw, pc, now>>
reproVars    == <<run_now, run_out>>
aggVars      == <<records, aggregated>>
detectorVars == <<features_df, returned, handed, model_type, is_fitted>>
scorerVars   == <<scorer_df, weights, risk_components>>
clusterVars  == <<cluster_df, n_clusters, clustered>>
explainVars == <<explain_df, explanations>>
processorVars == <<source, column_mapping, name_matched, field_index, standardized, schema_out,
                   missing_columns>>

(***************************************************************************)
(* Bounds of the model                                                     *)
(***************************************************************************)
MaxRows == 2        \* rows of a table handed to clean()
MaxRecords == 3     \* rows of a cleaned table handed to create_features()
MaxBatch == 3       \* rows of a table handed to detect()
MaxRegionRows == 3  \* rows of a table handed to calculate_risk_scores()
MaxClusterRows == 4 \* rows of a table handed to cluster()
MaxColumns == 3     \* columns of a file handed to process_any_dataset()
MaxFlagRows == 2    \* rows of a table handed to explain_anomalies()

(***************************************************************************)
(* Generic helpers                                                         *)
(***************************************************************************)
Range(s) == {s[i] : i \in 1..Len(s)}

Max2(a, b) == IF a >= b THEN a ELSE b

Abs(a) == IF a < 0 THEN -a ELSE a

RECURSIVE SumSeq(_)
SumSeq(s) == IF s = <<>> THEN 0 ELSE Head(s) + SumSeq(Tail(s))

RECURSIVE FilterSeq(_, _)
\* the rows of s at the positions in keep, in their original order
FilterSeq(s, keep) ==
    IF s = <<>> THEN <<>>
    ELSE LET n == Len(s)
             front == FilterSeq(SubSeq(s, 1, n - 1), keep)
         IN  IF n \in keep THEN Append(front, s[n]) ELSE front

RECURSIVE SetToSeq(_)
SetToSeq(S) == IF S = {} THEN <<>>
               ELSE LET x == CHOOSE y \in S : TRUE IN <<x>> \o SetToSeq(S \ {x})

RECURSIVE InsertSorted(_, _)
InsertSorted(x, s) ==
    IF s = <<>> THEN <<x>>
    ELSE IF x <= Head(s) THEN <<x>> \o s
    ELSE <<Head(s)>> \o InsertSorted(x, Tail(s))

RECURSIVE SortInts(_)
SortInts(s) == IF s = <<>> THEN <<>> ELSE InsertSorted(Head(s), SortInts(Tail(s)))

RECURSIVE SetToSeqOfSums(_)
\* the second components of a set of pairs, in some order
SetToSeqOfSums(S) ==
    IF S = {} THEN <<>>
    ELSE LET x == CHOOSE y \in S : TRUE IN <<x[2]>> \o SetToSeqOfSums(S \ {x})

\* the members of a set of positions, ascending
SetToSortedPositions(S) == SortInts(SetToSeq(S))

(***************************************************************************)
(* Text: letters, code-point order, str.title(), regular expressions       *)
(***************************************************************************)
LowerLetters == <<"a","b","c","d","e","f","g","h","i","j","k","l","m",
                  "n","o","p","q","r","s","t","u","v","w","x","y","z">>
UpperLetters == <<"A","B","C","D","E","F","G","H","I","J","K","L","M",
                  "N","O","P","Q","R","S","T","U","V","W","X","Y","Z">>
Digits == <<"0","1","2","3","4","5","6","7","8","9">>

\* the characters of the model in code-point order (Python's str ordering)
CodePoints == <<" ", "&", "-">> \o Digits \o UpperLetters \o LowerLetters

IsLower(c) == c \in Range(LowerLetters)
IsUpper(c) == c \in Range(UpperLetters)
IsDigit(c) == c \in Range(Digits)
IsSpace(c) == c = " "

IndexIn(c, s) == CHOOSE i \in 1..Len(s) : s[i] = c

ToUpper(c) == IF IsLower(c) THEN UpperLetters[IndexIn(c, LowerLetters)] ELSE c
ToLower(c) == IF IsUpper(c) THEN LowerLetters[IndexIn(c, UpperLetters)] ELSE c

Ord(c) == IndexIn(c, CodePoints)

RECURSIVE StrLess(_, _)
\* s < t for Python strings
StrLess(s, t) ==
    IF t = <<>> THEN FALSE
    ELSE IF s = <<>> THEN TRUE
    ELSE IF Head(s) = Head(t) THEN StrLess(Tail(s), Tail(t))
    ELSE Ord(Head(s)) < Ord(Head(t))

\* the missing value of a text column (NaN / None)
NaS == <<"<NA>">>
IsNaS(s) == s = NaS

\* Python str.title(): a cased letter is upper-cased when the letter before
\* it is not cased, lower-cased otherwise
StrTitle(s) ==
    [i \in 1..Len(s) |->
        LET prevCased == i > 1 /\ (IsLower(s[i-1]) \/ IsUpper(s[i-1]))
        IN  IF prevCased THEN ToLower(s[i]) ELSE ToUpper(s[i])]

\* Series.str.title(): NaN stays NaN
SeriesTitle(s) == IF IsNaS(s) THEN NaS ELSE StrTitle(s)

\* str.replace(r'[^a-zA-Z\s]', '', regex=True)
StripNonAlpha(s) ==
    IF IsNaS(s) THEN NaS
    ELSE FilterSeq(s, {i \in 1..Len(s) : IsLower(s[i]) \/ IsUpper(s[i]) \/ IsSpace(s[i])})

RECURSIVE StrStrip(_)
\* str.strip(): leading and trailing whitespace removed
StrStrip(s) ==
    IF s = <<>> THEN <<>>
    ELSE IF IsSpace(Head(s)) THEN StrStrip(Tail(s))
    ELSE IF IsSpace(s[Len(s)]) THEN StrStrip(SubSeq(s, 1, Len(s) - 1))
    ELSE s

\* str.extract(r'(\d{6})')[0]: the first run of six digits, NaN when none
ExtractSixDigits(s) ==
    LET starts == {i \in 1..(Len(s) - 5) : \A j \in 0..5 : IsDigit(s[i + j])}
    IN  IF starts = {} THEN NaS
        ELSE LET i == CHOOSE k \in starts : \A m \in starts : k <= m
             IN  SubSeq(s, i, i + 5)

(***************************************************************************)
(* Cells                                                                   *)
(***************************************************************************)
\* numeric cell: <<>> is NaN, <<v>> holds v
NaN == <<>>
IsNaN(c) == c = <<>>
Num(v) == <<v>>
Val(c) == c[1]

\* date cell: missing (None/NaT), text as read from a file, or a Timestamp
\* (Timestamps are written yyyymmdd)
NaT == [kind |-> "nat", text |-> "", ts |-> 0]
DateText(t) == [kind |-> "str", text |-> t, ts |-> 0]
Timestamp(d) == [kind |-> "ts", text |-> "", ts |-> d]
IsNaT(c) == c.kind = "nat"

\* pd.to_datetime(..., errors='coerce') on one cell
ToDatetime(c) ==
    CASE c.kind = "ts"  -> c
      [] c.kind = "nat" -> NaT
      [] c.kind = "str" ->
            CASE c.text = "2024-03-10" -> Timestamp(20240310)
              [] OTHER -> NaT

\* pd.Timestamp('2009-01-01')
ProgramStart == 20090101

\* cap of enrolment_count
EnrolmentCap == 1000000

(***************************************************************************)
(* Columns of the table handed to clean()                                  *)
(***************************************************************************)
NumericFields == <<"enrolment_count", "update_count", "age_0_18", "age_19_40">>
CategoricalFields == <<"state", "district", "pincode">>
AllFields == <<"date">> \o CategoricalFields \o NumericFields

\* config['data']['column_mappings']: standard name -> names it may arrive under
ColumnMappings ==
    [f \in Range(AllFields) |->
        CASE f = "date"            -> <<"date", "Date", "enrolment_date">>
          [] f = "state"           -> <<"state", "State", "state_name">>
          [] f = "enrolment_count" -> <<"enrolment_count", "Total_Enrolments">>
          [] OTHER                 -> <<f>>]

\* df.columns holds the label name
HasColumn(cols, name) == \E f \in DOMAIN cols : cols[f] = name

\* the column that carries the label name
ColumnOf(cols, name) == CHOOSE f \in DOMAIN cols : cols[f] = name

\* df[name] of one row
Cell(cols, row, name) == row[ColumnOf(cols, name)]

\* the row with df[name] set to v
SetCell(cols, row, name, v) == [row EXCEPT ![ColumnOf(cols, name)] = v]

\* _standardize_columns: the first possible name present in df.columns is
\* renamed to the standard name
StandardizeColumns(cols) ==
    [f \in DOMAIN cols |->
        LET hits == {std \in DOMAIN ColumnMappings :
                        \E i \in 1..Len(ColumnMappings[std]) :
                            /\ HasColumn(cols, ColumnMappings[std][i])
                            /\ \A j \in 1..(i - 1) : ~HasColumn(cols, ColumnMappings[std][j])
                            /\ ColumnMappings[std][i] = cols[f]}
        IN  IF hits = {} THEN cols[f] ELSE CHOOSE std \in hits : TRUE]

(***************************************************************************)
(* Stage 2: _handle_missing_values                                         *)
(***************************************************************************)
IsMissing(f, row) ==
    IF f = "date" THEN IsNaT(row[f])
    ELSE IF f \in Range(NumericFields) THEN IsNaN(row[f])
    ELSE IsNaS(row[f])

\* Series.median(): NaN skipped, NaN when nothing is left.  The counts of the
\* model's input tables are even, so the mean of the two middle values is exact.
Median(cells) ==
    LET present == SelectSeq(cells, LAMBDA c : ~IsNaN(c))
        sorted  == SortInts([i \in 1..Len(present) |-> Val(present[i])])
        n       == Len(sorted)
    IN  IF n = 0 THEN NaN
        ELSE IF n % 2 = 1 THEN Num(sorted[(n + 1) \div 2])
        ELSE Num((sorted[n \div 2] + sorted[n \div 2 + 1]) \div 2)

\* Series.mode(): the most frequent non-null values, sorted; <<>> when all null
Mode(cells) ==
    LET present == {c \in Range(cells) : ~IsNaS(c)}
        count(v) == Cardinality({i \in 1..Len(cells) : cells[i] = v})
        best    == {v \in present : \A w \in present : count(w) <= count(v)}
    IN  IF best = {} THEN <<>>
        ELSE <<CHOOSE v \in best : \A w \in best \ {v} : StrLess(v, w)>>

Unknown == <<"U","n","k","n","o","w","n">>

FillNumeric(rows, f) ==
    LET col == [i \in 1..Len(rows) |-> rows[i][f]]
        missing_count == Cardinality({i \in 1..Len(rows) : IsNaN(col[i])})
        median_val == Median(col)
    IN  IF missing_count > 0
        THEN [i \in 1..Len(rows) |->
                 IF IsNaN(rows[i][f]) THEN [rows[i] EXCEPT ![f] = median_val] ELSE rows[i]]
        ELSE rows

FillCategorical(cols, rows, name) ==
    IF ~HasColumn(cols, name) THEN rows
    ELSE LET f == ColumnOf(cols, name)
             col == [i \in 1..Len(rows) |-> rows[i][f]]
             missing_count == Cardinality({i \in 1..Len(rows) : IsMissing(f, rows[i])})
             fill == IF Mode(col) # <<>> THEN Mode(col)[1] ELSE Unknown
         IN  IF missing_count > 0 /\ f \in Range(CategoricalFields)
             THEN [i \in 1..Len(rows) |->
                      IF IsNaS(rows[i][f]) THEN [rows[i] EXCEPT ![f] = fill] ELSE rows[i]]
             ELSE rows

RECURSIVE FillAllNumeric(_, _)
FillAllNumeric(rows, fs) ==
    IF fs = <<>> THEN rows ELSE FillAllNumeric(FillNumeric(rows, Head(fs)), Tail(fs))

RECURSIVE FillAllCategorical(_, _, _)
FillAllCategorical(cols, rows, names) ==
    IF names = <<>> THEN rows
    ELSE FillAllCategorical(cols, FillCategorical(cols, rows, Head(names)), Tail(names))

\* rows whose fraction of missing cells is below the threshold 0.5
BelowMissingThreshold(cols, rows) ==
    LET cols_to_check == {f \in DOMAIN cols : cols[f] # "source_file"}
        na(i) == Cardinality({f \in cols_to_check : IsMissing(f, rows[i])})
    IN  FilterSeq(rows, {i \in 1..Len(rows) : 2 * na(i) < Cardinality(cols_to_check)})

HandleMissingValues(cols, rows) ==
    LET dated == IF HasColumn(cols, "date")
                 THEN SelectSeq(rows, LAMBDA r : ~IsMissing(ColumnOf(cols, "date"), r))
                 ELSE rows
        numeric == FillAllNumeric(dated, NumericFields)
        filled == FillAllCategorical(cols, numeric, CategoricalFields)
    IN  BelowMissingThreshold(cols, filled)

(***************************************************************************)
(* Stage 3: _clean_dates                                                   *)
(***************************************************************************)
CleanDates(cols, rows, clock) ==
    IF ~HasColumn(cols, "date") THEN rows
    ELSE LET f == ColumnOf(cols, "date")
             parsed == [i \in 1..Len(rows) |-> [rows[i] EXCEPT ![f] = ToDatetime(rows[i][f])]]
             valid == SelectSeq(parsed, LAMBDA r : ~IsNaT(r[f]))
             started == SelectSeq(valid, LAMBDA r : r[f].ts >= ProgramStart)
         IN  SelectSeq(started, LAMBDA r : r[f].ts <= clock)

(***************************************************************************)
(* Stage 4: _clean_geographic_data                                         *)
(***************************************************************************)
state_corrections ==
    << <<<<"D","E","L","H","I">>, <<"N","C","T"," ","o","f"," ","D","e","l","h","i">>>>,
       <<<<"N","E","W"," ","D","E","L","H","I">>, <<"N","C","T"," ","o","f"," ","D","e","l","h","i">>>>,
       <<<<"P","O","N","D","I","C","H","E","R","R","Y">>, <<"P","u","d","u","c","h","e","r","r","y">>>>,
       <<<<"O","R","I","S","S","A">>, <<"O","d","i","s","h","a">>>>,
       <<<<"U","T","T","A","R","A","N","C","H","A","L">>, <<"U","t","t","a","r","a","k","h","a","n","d">>>>,
       <<<<"J","A","M","M","U"," ","&"," ","K","A","S","H","M","I","R">>, <<"J","a","m","m","u"," ","a","n","d"," ","K","a","s","h","m","i","r">>>> >>

\* Series.replace(dict): a cell equal to a key becomes that key's value
ReplaceByTable(v, table) ==
    IF \E i \in 1..Len(table) : table[i][1] = v
    THEN table[CHOOSE i \in 1..Len(table) : table[i][1] = v][2]
    ELSE v

\* astype(str): NaN becomes the text 'nan'
AsTypeStr(v) == IF IsNaS(v) THEN <<"n", "a", "n">> ELSE v

\* a mutation of CleanState: the keys of the table are matched in title case
CleanStateTitleKeys(v) ==
    ReplaceByTable(SeriesTitle(v),
                   [i \in 1..Len(state_corrections) |->
                       <<StrTitle(state_corrections[i][1]), state_corrections[i][2]>>])

CleanState(v) == ReplaceByTable(SeriesTitle(v), state_corrections)

CleanDistrict(v) == StripNonAlpha(SeriesTitle(v))

CleanPincode(v) == ExtractSixDigits(StrStrip(AsTypeStr(v)))

CleanGeographicData(cols, rows) ==
    LET apply(rs, name, op(_)) ==
            IF HasColumn(cols, name)
            THEN [i \in 1..Len(rs) |->
                     SetCell(cols, rs[i], name, op(Cell(cols, rs[i], name)))]
            ELSE rs
    IN  apply(apply(apply(rows, "state", CleanState), "district", CleanDistrict),
              "pincode", CleanPincode)

(***************************************************************************)
(* Stage 5: _validate_numeric_ranges                                       *)
(***************************************************************************)
\* Series.clip(upper=cap) / Series.clip(lower=floor): NaN stays NaN
ClipUpper(c, cap) == IF IsNaN(c) THEN c ELSE IF Val(c) > cap THEN Num(cap) ELSE c
ClipLower(c, floor) == IF IsNaN(c) THEN c ELSE IF Val(c) < floor THEN Num(floor) ELSE c

\* a comparison with NaN is False
NonNegative(c) == ~IsNaN(c) /\ Val(c) >= 0

\* a mutation of ValidateEnrolment: negatives are removed, the cap is not applied
ValidateEnrolmentNoCap(cols, rows) ==
    IF ~HasColumn(cols, "enrolment_count") THEN rows
    ELSE SelectSeq(rows, LAMBDA r : NonNegative(Cell(cols, r, "enrolment_count")))

ValidateEnrolment(cols, rows) ==
    IF ~HasColumn(cols, "enrolment_count") THEN rows
    ELSE LET kept == SelectSeq(rows, LAMBDA r : NonNegative(Cell(cols, r, "enrolment_count")))
         IN  [i \in 1..Len(kept) |->
                 SetCell(cols, kept[i], "enrolment_count",
                         ClipUpper(Cell(cols, kept[i], "enrolment_count"), EnrolmentCap))]

ValidateUpdate(cols, rows) ==
    IF ~HasColumn(cols, "update_count") THEN rows
    ELSE LET kept == SelectSeq(rows, LAMBDA r : NonNegative(Cell(cols, r, "update_count")))
         IN  IF HasColumn(cols, "enrolment_count")
             THEN SelectSeq(kept, LAMBDA r :
                      /\ ~IsNaN(Cell(cols, r, "enrolment_count"))
                      /\ Val(Cell(cols, r, "update_count"))
                            <= Val(Cell(cols, r, "enrolment_count")) * 5)
             ELSE kept

age_columns == <<"age_0_18", "age_19_40", "age_41_60", "age_60_plus">>

ExistingAgeCols(cols) == SelectSeq(age_columns, LAMBDA a : HasColumn(cols, a))

\* DataFrame.sum(axis=1): NaN cells are skipped
AgeSum(cols, row) ==
    LET ages == ExistingAgeCols(cols)
    IN  SumSeq([k \in 1..Len(ages) |->
                   IF IsNaN(Cell(cols, row, ages[k])) THEN 0 ELSE Val(Cell(cols, row, ages[k]))])

ValidateAgeGroups(cols, rows) ==
    LET ages == ExistingAgeCols(cols)
        clipRow(r) == [f \in DOMAIN r |->
                          IF cols[f] \in Range(ages) THEN ClipLower(r[f], 0) ELSE r[f]]
        clipped == [i \in 1..Len(rows) |-> clipRow(rows[i])]
    IN  IF ages = <<>> THEN rows
        ELSE IF HasColumn(cols, "enrolment_count")
        \* age_sum <= enrolment_count * 1.1
        THEN SelectSeq(clipped, LAMBDA r :
                 /\ ~IsNaN(Cell(cols, r, "enrolment_count"))
                 /\ 10 * AgeSum(cols, r) <= 11 * Val(Cell(cols, r, "enrolment_count")))
        ELSE clipped

ValidateNumericRanges(cols, rows) ==
    ValidateAgeGroups(cols, ValidateUpdate(cols, ValidateEnrolment(cols, rows)))

(***************************************************************************)
(* Stage 6: _remove_duplicates                                             *)
(***************************************************************************)
duplicate_cols == <<"date", "state", "district">>

DuplicateKey(cols, row) ==
    LET existing_cols == SelectSeq(duplicate_cols, LAMBDA c : HasColumn(cols, c))
    IN  [k \in 1..Len(existing_cols) |-> <<existing_cols[k], Cell(cols, row, existing_cols[k])>>]

\* a mutation of RemoveDuplicates: keep='last'
RemoveDuplicatesKeepLast(cols, rows) ==
    IF SelectSeq(duplicate_cols, LAMBDA c : HasColumn(cols, c)) = <<>> THEN rows
    ELSE FilterSeq(rows, {i \in 1..Len(rows) :
             \A j \in (i + 1)..Len(rows) : DuplicateKey(cols, rows[j]) # DuplicateKey(cols, rows[i])})

\* a mutation of RemoveDuplicates: the de-duplicated rows are appended to the table
RemoveDuplicatesAppends(cols, rows) ==
    rows \o RemoveDuplicatesKeepLast(cols, rows)

\* drop_duplicates(subset=existing_cols, keep='first')
RemoveDuplicates(cols, rows) ==
    IF SelectSeq(duplicate_cols, LAMBDA c : HasColumn(cols, c)) = <<>> THEN rows
    ELSE FilterSeq(rows, {i \in 1..Len(rows) :
             \A j \in 1..(i - 1) : DuplicateKey(cols, rows[j]) # DuplicateKey(cols, rows[i])})

\* clean(): the six stages in order, run with the wall clock reading `clock`
Clean(cols, rows, clock) ==
    LET c1 == StandardizeColumns(cols)
    IN  RemoveDuplicates(c1,
          ValidateNumericRanges(c1,
            CleanGeographicData(c1,
              CleanDates(c1, HandleMissingValues(c1, rows), clock))))

(***************************************************************************)
(* Tables handed to clean()                                                *)
(***************************************************************************)
\* readings of the wall clock
Clocks == {20240401, 20250101}

BaseRow ==
    [date |-> Timestamp(20240310),
     state |-> <<"K","e","r","a","l","a">>,
     district |-> <<"P","u","n","e">>,
     pincode |-> <<"5","6","0","0","0","1">>,
     enrolment_count |-> Num(10),
     update_count |-> Num(4),
     age_0_18 |-> Num(4),
     age_19_40 |-> Num(6)]

\* values a cell may take instead of the base row's
Variants(f) ==
    CASE f = "date" -> {NaT, DateText("not a date"), DateText("2024-03-10"),
                        Timestamp(20081231), Timestamp(20240615), Timestamp(20300101)}
      [] f = "state" -> {NaS, <<"k","e","r","a","l","a">>, <<"D","E","L","H","I">>, <<"D","e","l","h","i">>}
      [] f = "district" -> {NaS, <<"p","u","n","e","-","2">>}
      [] f = "pincode" -> {NaS, <<"5","6","0","0">>}
      [] f = "enrolment_count" -> {NaN, Num(-2), Num(0), Num(2000000)}
      [] f = "update_count" -> {NaN, Num(-2), Num(60)}
      [] f = "age_0_18" -> {NaN, Num(-6), Num(12)}
      [] f = "age_19_40" -> {NaN}

\* rows that differ from the base row in two or more cells
CombinedRows ==
    { [BaseRow EXCEPT !.enrolment_count = Num(2000000), !.update_count = Num(6000000)],
      [BaseRow EXCEPT !.enrolment_count = Num(0), !.update_count = Num(0),
                      !.age_0_18 = Num(0), !.age_19_40 = Num(0)],
      [BaseRow EXCEPT !.enrolment_count = NaN, !.update_count = NaN,
                      !.age_0_18 = NaN, !.age_19_40 = NaN] }

RowDomain ==
    {BaseRow} \cup CombinedRows
    \cup {[BaseRow EXCEPT ![f] = v] : <<f, v>> \in
             UNION {{<<g, w>> : w \in Variants(g)} : g \in Range(AllFields)}}

Tables == UNION {[1..n -> RowDomain] : n \in 0..MaxRows}

CanonicalHeader == [f \in Range(AllFields) |-> f]

Headers ==
    {CanonicalHeader,
     [CanonicalHeader EXCEPT !["date"] = "Date", !["state"] = "state_name",
                             !["enrolment_count"] = "Total_Enrolments"]}

(***************************************************************************)
(* clean(), stage by stage                                                 *)
(***************************************************************************)
Idle == "idle"

InitClean ==
    /\ columns \in Headers
    /\ now \in Clocks
    /\ \E t \in Tables : df = t /\ raw = [columns |-> columns, rows |-> t]
    /\ pc = "standardize_columns"
    /\ run_now = Idle /\ run_out = Idle
    /\ records = Idle /\ aggregated = Idle
    /\ features_df = Idle /\ returned = Idle /\ is_fitted = FALSE
    /\ handed = Idle /\ model_type = Idle
    /\ scorer_df = Idle /\ weights = Idle /\ risk_components = Idle
    /\ cluster_df = Idle /\ n_clusters = Idle /\ clustered = Idle
    /\ source = Idle /\ column_mapping = Idle /\ name_matched = Idle /\ field_index = Idle /\ standardized = Idle /\ schema_out = Idle /\ missing_columns = Idle
    /\ explain_df = Idle /\ explanations = Idle
    /\ describe_df = Idle /\ cluster_descriptions = Idle /\ described = Idle

otherThanCleaner == <<run_now, run_out, records, aggregated, features_df, returned, handed, model_type, is_fitted,
      scorer_df, weights, risk_components,
      cluster_df, n_clusters, clustered,
      source, column_mapping, name_matched, field_index, standardized, schema_out, missing_columns,
      explain_df, explanations,
      describe_df, cluster_descriptions, described>>

StepStandardizeColumns ==
    /\ pc = "standardize_columns"
    /\ columns' = StandardizeColumns(columns)
    /\ pc' = "handle_missing_values"
    /\ UNCHANGED <<df, raw, now, otherThanCleaner>>

StepHandleMissingValues ==
    /\ pc = "handle_missing_values"
    /\ df' = HandleMissingValues(columns, df)
    /\ pc' = "clean_dates"
    /\ UNCHANGED <<columns, raw, now, otherThanCleaner>>

StepCleanDates ==
    /\ pc = "clean_dates"
    /\ df' = CleanDates(columns, df, now)
    /\ pc' = "clean_geographic_data"
    /\ UNCHANGED <<columns, raw, now, otherThanCleaner>>

StepCleanGeographicData ==
    /\ pc = "clean_geographic_data"
    /\ df' = CleanGeographicData(columns, df)
    /\ pc' = "validate_numeric_ranges"
    /\ UNCHANGED <<columns, raw, now, otherThanCleaner>>

StepValidateNumericRanges ==
    /\ pc = "validate_numeric_ranges"
    /\ df' = ValidateNumericRanges(columns, df)
    /\ pc' = "remove_duplicates"
    /\ UNCHANGED <<columns, raw, now, otherThanCleaner>>

StepRemoveDuplicates ==
    /\ pc = "remove_duplicates"
    /\ df' = RemoveDuplicates(columns, df)
    /\ pc' = "done"
    /\ UNCHANGED <<columns, raw, now, otherThanCleaner>>

NextClean ==
    \/ StepStandardizeColumns
    \/ StepHandleMissingValues
    \/ StepCleanDates
    \/ StepCleanGeographicData
    \/ StepValidateNumericRanges
    \/ StepRemoveDuplicates

SpecClean == InitClean /\ [][NextClean]_vars

(***************************************************************************)
(* Claims about clean()                                                    *)
(***************************************************************************)
CleanDone == pc = "done"

AgeFields == {"age_0_18", "age_19_40"}

PresentAgeSum(r) ==
    SumSeq([k \in 1..2 |->
        LET a == <<"age_0_18", "age_19_40">>[k]
        IN  IF IsNaN(r[a]) THEN 0 ELSE Val(r[a])])

RowInRange(r) ==
    /\ r.date.kind = "ts"
    /\ ~IsNaS(r.state)
    /\ ~IsNaN(r.enrolment_count)
    /\ Val(r.enrolment_count) >= 0 /\ Val(r.enrolment_count) <= EnrolmentCap
    /\ ~IsNaN(r.update_count)
    /\ Val(r.update_count) >= 0
    /\ Val(r.update_count) <= 5 * Val(r.enrolment_count)
    /\ 10 * PresentAgeSum(r) <= 11 * Val(r.enrolment_count)

\* C1 as stated: every row returned by clean() has a non-null date and state,
\* enrolment_count in [0, 1000000], 0 <= update_count <= 5 x enrolment_count,
\* every age-bucket count >= 0 and the age-bucket sum <= 1.1 x enrolment_count.
C1_AsStated ==
    CleanDone =>
        \A i \in 1..Len(df) :
            /\ RowInRange(df[i])
            /\ \A a \in AgeFields : ~IsNaN(df[i][a]) /\ Val(df[i][a]) >= 0

\* C1 amended: as C1, except that an age-bucket count may be null, and is null
\* only when that bucket is null in every input row that has a date; every
\* non-null age-bucket count is >= 0 and the sum of the non-null buckets is
\* <= 1.1 x enrolment_count.
C1_CleanRowsInRange ==
    CleanDone =>
        \A i \in 1..Len(df) :
            /\ RowInRange(df[i])
            /\ \A a \in AgeFields :
                  IF IsNaN(df[i][a])
                  THEN \A j \in 1..Len(raw.rows) :
                          ~IsNaT(raw.rows[j].date) => IsNaN(raw.rows[j][a])
                  ELSE Val(df[i][a]) >= 0

\* a returned row whose enrolment_count was capped, next to an input row that
\* was rejected
C1_Witness ==
    /\ CleanDone
    /\ Len(df) >= 1 /\ Len(df) < Len(raw.rows)
    /\ \E i \in 1..Len(df) : df[i].enrolment_count = Num(EnrolmentCap)
    /\ \E j \in 1..Len(raw.rows) : raw.rows[j].enrolment_count = Num(2000000)

NoNulls(r) == \A f \in Range(AllFields) : ~IsMissing(f, r)

\* no nulls, no duplicate (date, state, district), no range violation, every
\* date inside [2009-01-01, now]
AlreadyClean(t) ==
    /\ t.columns = CanonicalHeader
    /\ \A i \in 1..Len(t.rows) :
          LET r == t.rows[i]
          IN  /\ NoNulls(r)
              /\ ~IsNaT(ToDatetime(r.date))
              /\ ToDatetime(r.date).ts >= ProgramStart
              /\ ToDatetime(r.date).ts <= now
              /\ RowInRange([r EXCEPT !.date = ToDatetime(r.date)])
              /\ \A a \in AgeFields : Val(r[a]) >= 0
    /\ \A i, j \in 1..Len(t.rows) :
          i # j => <<t.rows[i].date, t.rows[i].state, t.rows[i].district>>
                   # <<t.rows[j].date, t.rows[j].state, t.rows[j].district>>

\* dates are Timestamps, state and district are title-cased, district holds
\* letters and whitespace only, pincode is a text of exactly six digits
NormalForm(t) ==
    \A i \in 1..Len(t.rows) :
        LET r == t.rows[i]
        IN  /\ r.date.kind = "ts"
            /\ r.state = StrTitle(r.state)
            /\ r.district = StrTitle(r.district)
            /\ \A k \in 1..Len(r.district) :
                  IsLower(r.district[k]) \/ IsUpper(r.district[k]) \/ IsSpace(r.district[k])
            /\ Len(r.pincode) = 6
            /\ \A k \in 1..Len(r.pincode) : IsDigit(r.pincode[k])

C3_RowCountNeverIncreases == [][Len(df') <= Len(df)]_vars

\* every stage has run and rows were removed by more than one of them
C3_Witness ==
    /\ CleanDone
    /\ Len(raw.rows) >= 2
    /\ Len(df) = 0

(***************************************************************************)
(* Two runs of clean() on the same table under the same configuration      *)
(***************************************************************************)
Runs == {1, 2}

InitRepro ==
    /\ columns \in Headers
    /\ \E t \in Tables : raw = [columns |-> columns, rows |-> t]
    /\ run_now \in [Runs -> Clocks]
    /\ run_out = [r \in Runs |-> [done |-> FALSE, rows |-> <<>>]]
    /\ df = <<>> /\ pc = Idle /\ now = 0
    /\ records = Idle /\ aggregated = Idle
    /\ features_df = Idle /\ returned = Idle /\ is_fitted = FALSE
    /\ handed = Idle /\ model_type = Idle
    /\ scorer_df = Idle /\ weights = Idle /\ risk_components = Idle
    /\ cluster_df = Idle /\ n_clusters = Idle /\ clustered = Idle
    /\ source = Idle /\ column_mapping = Idle /\ name_matched = Idle /\ field_index = Idle /\ standardized = Idle /\ schema_out = Idle /\ missing_columns = Idle
    /\ explain_df = Idle /\ explanations = Idle
    /\ describe_df = Idle /\ cluster_descriptions = Idle /\ described = Idle

\* run r calls clean(raw) while its wall clock reads run_now[r]
otherThanRunOut ==
    <<columns, df, raw, pc, now, run_now, records, aggregated,
      features_df, returned, handed, model_type, is_fitted,
      scorer_df, weights, risk_components,
      cluster_df, n_clusters, clustered,
      source, column_mapping, name_matched, field_index, standardized, schema_out, missing_columns,
      explain_df, explanations,
      describe_df, cluster_descriptions, described>>

RunClean(r) ==
    /\ ~run_out[r].done
    /\ run_out' = [run_out EXCEPT
                      ![r] = [done |-> TRUE, rows |-> Clean(raw.columns, raw.rows, run_now[r])]]
    /\ UNCHANGED otherThanRunOut

NextRepro == \E r \in Runs : RunClean(r)

SpecRepro == InitRepro /\ [][NextRepro]_vars

\* C4: two runs on identical input and configuration return identical
\* output, whatever the wall-clock time of each run.
C4_AsStated ==
    (run_out[1].done /\ run_out[2].done) => run_out[1].rows = run_out[2].rows

(***************************************************************************)
(* Real numbers of the aggregate table                                     *)
(***************************************************************************)
RECURSIVE GCD(_, _)
GCD(a, b) == IF b = 0 THEN a ELSE GCD(b, a % b)

Sign(a) == IF a > 0 THEN 1 ELSE IF a < 0 THEN -1 ELSE 0

\* a float: num/den in lowest terms with den > 0; den = 0 encodes the IEEE
\* values inf (num = 1), -inf (num = -1) and NaN (num = 0)
Rat(n, d) ==
    IF d = 0 THEN [num |-> Sign(n), den |-> 0]
    ELSE LET g == GCD(Abs(n), Abs(d))
         IN  [num |-> Sign(d) * (n \div g), den |-> Abs(d) \div g]

NaNf == [num |-> 0, den |-> 0]
IsNaNf(x) == x.den = 0 /\ x.num = 0
IsFinite(x) == x.den # 0

\* a / b on floats holding integers: x/0 is +-inf, 0/0 is NaN
FloatDiv(a, b) == Rat(a, b)

\* x - 1 on floats
MinusOne(x) == IF x.den = 0 THEN x ELSE Rat(x.num - x.den, x.den)

(***************************************************************************)
(* _create_aggregated_features                                             *)
(***************************************************************************)
\* Timestamp.to_period('M'), written yyyymm
ToPeriodM(date) == date.ts \div 100

DigitOf(n) == Digits[n + 1]

\* Period.astype(str): 'yyyy-mm'
PeriodStr(ym) ==
    LET y == ym \div 100
        m == ym % 100
    IN  <<DigitOf(y \div 1000), DigitOf((y \div 100) % 10), DigitOf((y \div 10) % 10),
          DigitOf(y % 10), "-", DigitOf(m \div 10), DigitOf(m % 10)>>

RECURSIVE SortKeys(_)
\* the (state, year_month) group keys in groupby's order: by state, then by month
SortKeys(keys) ==
    IF keys = {} THEN <<>>
    ELSE LET first == CHOOSE k \in keys : \A o \in keys \ {k} :
                          \/ StrLess(k[1], o[1])
                          \/ (k[1] = o[1] /\ k[2] < o[2])
         IN  <<first>> \o SortKeys(keys \ {first})

\* Series.std(): sample standard deviation (ddof = 1) of integers, kept as its
\* square n*(n-1)*var = sum (n*x - S)^2 / n over n*(n-1); NaN for one value
StdSquared(xs) ==
    LET n == Len(xs)
        S == SumSeq(xs)
    IN  IF n < 2 THEN NaNf
        ELSE Rat(SumSeq([i \in 1..n |-> (n * xs[i] - S) * (n * xs[i] - S)]), n * n * (n - 1))

\* x.std() > 0, False when the std is NaN
StdPositive(xs) == IsFinite(StdSquared(xs)) /\ StdSquared(xs).num > 0

\* df.groupby(['state', 'year_month']).agg(...).reset_index()
GroupByStateMonth(rows) ==
    LET keys == {<<rows[i].state, ToPeriodM(rows[i].date)>> : i \in 1..Len(rows)}
        order == SortKeys(keys)
        members(k) == SelectSeq(rows, LAMBDA r : <<r.state, ToPeriodM(r.date)>> = k)
        enrol(k) == [i \in 1..Len(members(k)) |-> Val(members(k)[i].enrolment_count)]
        upd(k) == [i \in 1..Len(members(k)) |-> Val(members(k)[i].update_count)]
    IN  [g \in 1..Len(order) |->
            [state |-> order[g][1],
             year_month |-> PeriodStr(order[g][2]),
             enrolment_count_sum |-> SumSeq(enrol(order[g])),
             enrolment_count_mean |-> Rat(SumSeq(enrol(order[g])), Len(enrol(order[g]))),
             enrolment_count_std_sq |-> StdSquared(enrol(order[g])),
             update_count_sum |-> SumSeq(upd(order[g]))]]

\* positions of the rows of table t that belong to the group of row i
\* (groupby('state')), in table order
GroupOf(t, i) == {j \in 1..Len(t) : t[j].state = t[i].state}

\* a mutation of PctChange: pct_change() of the whole column, without groupby
PctChangeUngrouped(t, i) ==
    IF i = 1 THEN NaNf
    ELSE MinusOne(FloatDiv(t[i].enrolment_count_sum, t[i - 1].enrolment_count_sum))

\* groupby('state')[primary_sum].pct_change() for row i: NaN on the first row
\* of the group, else x / previous - 1 with the previous row of the group
PctChange(t, i) ==
    LET before == {j \in GroupOf(t, i) : j < i}
    IN  IF before = {} THEN NaNf
        ELSE LET p == CHOOSE j \in before : \A k \in before : k <= j
             IN  MinusOne(FloatDiv(t[i].enrolment_count_sum, t[p].enrolment_count_sum))

\* the z-score as its sign and its square
ZeroScore == [sign |-> 0, sq |-> Rat(0, 1)]

\* a mutation of ZScore: the guard on x.std() > 0 is missing
ZScoreUnguarded(t, i) ==
    LET g  == SetToSortedPositions(GroupOf(t, i))
        xs == [k \in 1..Len(g) |-> t[g[k]].enrolment_count_sum]
        n  == Len(xs)
        S  == SumSeq(xs)
        dev == n * t[i].enrolment_count_sum - S
        Q  == SumSeq([k \in 1..n |-> (n * xs[k] - S) * (n * xs[k] - S)])
    IN  [sign |-> Sign(dev), sq |-> Rat(dev * dev * (n - 1), Q)]

\* groupby('state')[primary_sum].transform(
\*     lambda x: (x - x.mean()) / x.std() if x.std() > 0 else 0) for row i
ZScore(t, i) ==
    LET g  == SetToSortedPositions(GroupOf(t, i))
        xs == [k \in 1..Len(g) |-> t[g[k]].enrolment_count_sum]
        n  == Len(xs)
        S  == SumSeq(xs)
        dev == n * t[i].enrolment_count_sum - S
        Q  == SumSeq([k \in 1..n |-> (n * xs[k] - S) * (n * xs[k] - S)])
    IN  IF StdPositive(xs)
        THEN [sign |-> Sign(dev), sq |-> Rat(dev * dev * (n - 1), Q)]
        ELSE ZeroScore

\* a mutation of UpdateRatio: the zero denominator is not replaced
UpdateRatioUnguarded(row) == FloatDiv(row.update_count_sum, row.enrolment_count_sum)

\* aggregated[update_sum] / aggregated[enrolment_sum].replace(0, 1)
UpdateRatio(row) ==
    FloatDiv(row.update_count_sum,
             IF row.enrolment_count_sum = 0 THEN 1 ELSE row.enrolment_count_sum)

CreateAggregatedFeatures(rows) ==
    LET t == GroupByStateMonth(rows)
    IN  [i \in 1..Len(t) |->
            [state |-> t[i].state,
             year_month |-> t[i].year_month,
             enrolment_count_sum |-> t[i].enrolment_count_sum,
             enrolment_count_mean |-> t[i].enrolment_count_mean,
             enrolment_count_std_sq |-> t[i].enrolment_count_std_sq,
             update_count_sum |-> t[i].update_count_sum,
             mom_growth |-> PctChange(t, i),
             z_score |-> ZScore(t, i),
             update_ratio |-> UpdateRatio(t[i])]]

\* create_features(): an empty table gives empty tables
CreateFeatures(rows) == IF rows = <<>> THEN <<>> ELSE CreateAggregatedFeatures(rows)

(***************************************************************************)
(* create_features() on a cleaned table                                    *)
(***************************************************************************)
Goa == <<"G","o","a">>
Kerala == <<"K","e","r","a","l","a">>

\* rows as clean() returns them: a state, a date, counts within range
RecordDomain ==
    {[state |-> st, date |-> Timestamp(d), enrolment_count |-> Num(c[1]), update_count |-> Num(c[2])] :
        st \in {Goa, Kerala},
        d \in {20240115, 20240220, 20240310},
        c \in {<<0, 0>>, <<100, 0>>, <<300, 150>>}}

InitAggregate ==
    /\ records \in UNION {[1..n -> RecordDomain] : n \in 0..MaxRecords}
    /\ aggregated = <<>>
    /\ pc = "create_features"
    /\ columns = Idle /\ df = <<>> /\ raw = Idle /\ now = 0
    /\ run_now = Idle /\ run_out = Idle
    /\ features_df = Idle /\ returned = Idle /\ is_fitted = FALSE
    /\ handed = Idle /\ model_type = Idle
    /\ scorer_df = Idle /\ weights = Idle /\ risk_components = Idle
    /\ cluster_df = Idle /\ n_clusters = Idle /\ clustered = Idle
    /\ source = Idle /\ column_mapping = Idle /\ name_matched = Idle /\ field_index = Idle /\ standardized = Idle /\ schema_out = Idle /\ missing_columns = Idle
    /\ explain_df = Idle /\ explanations = Idle
    /\ describe_df = Idle /\ cluster_descriptions = Idle /\ described = Idle

otherThanAggregator ==
    <<columns, df, raw, now, run_now, run_out, records,
      features_df, returned, handed, model_type, is_fitted,
      scorer_df, weights, risk_components,
      cluster_df, n_clusters, clustered,
      source, column_mapping, name_matched, field_index, standardized, schema_out, missing_columns,
      explain_df, explanations,
      describe_df, cluster_descriptions, described>>

StepCreateFeatures ==
    /\ pc = "create_features"
    /\ aggregated' = CreateFeatures(records)
    /\ pc' = "done"
    /\ UNCHANGED otherThanAggregator

NextAggregate == StepCreateFeatures

SpecAggregate == InitAggregate /\ [][NextAggregate]_vars

(***************************************************************************)
(* Claims about the aggregate table                                        *)
(***************************************************************************)
AggregateDone == pc = "done"

\* rows of the same region with an earlier calendar month than row i
EarlierMonths(i) ==
    {j \in 1..Len(aggregated) :
        /\ aggregated[j].state = aggregated[i].state
        /\ StrLess(aggregated[j].year_month, aggregated[i].year_month)}

\* the latest of them
PrecedingMonth(i) ==
    CHOOSE j \in EarlierMonths(i) :
        \A k \in EarlierMonths(i) \ {j} :
            StrLess(aggregated[k].year_month, aggregated[j].year_month)

\* C5: the row of a region's first month has a null mom_growth (never 0);
\* every other row's mom_growth is (volume_sum - prev) / prev, prev being the
\* volume_sum of the same region's preceding month in calendar order (the
\* float quotient: +-inf or NaN when prev = 0).
C5_GrowthAgainstPrecedingMonth ==
    AggregateDone =>
        \A i \in 1..Len(aggregated) :
            IF EarlierMonths(i) = {}
            THEN IsNaNf(aggregated[i].mom_growth)
            ELSE LET prev == aggregated[PrecedingMonth(i)].enrolment_count_sum
                 IN  aggregated[i].mom_growth
                        = Rat(aggregated[i].enrolment_count_sum - prev, prev)

\* a region has the monthly sums 100, 100, 300 and growth null, 0, 2.0
C5_Witness ==
    /\ AggregateDone
    /\ \E a, b, c \in 1..Len(aggregated) :
          /\ aggregated[a].state = Goa /\ aggregated[b].state = Goa /\ aggregated[c].state = Goa
          /\ EarlierMonths(a) = {} /\ EarlierMonths(b) = {a} /\ EarlierMonths(c) = {a, b}
          /\ aggregated[a].enrolment_count_sum = 100
          /\ aggregated[b].enrolment_count_sum = 100
          /\ aggregated[c].enrolment_count_sum = 300
          /\ IsNaNf(aggregated[a].mom_growth)
          /\ aggregated[b].mom_growth = Rat(0, 1)
          /\ aggregated[c].mom_growth = Rat(2, 1)

RegionSeries(i) ==
    {<<aggregated[j].year_month, aggregated[j].enrolment_count_sum>> :
        j \in {k \in 1..Len(aggregated) : aggregated[k].state = aggregated[i].state}}

RegionConstant(i) ==
    \A p, q \in RegionSeries(i) : p[2] = q[2]

AboveRegionMean(i) ==
    LET total == SumSeq(SetToSeqOfSums(RegionSeries(i)))
    IN  Cardinality(RegionSeries(i)) * aggregated[i].enrolment_count_sum > total

\* C6: in a region whose monthly volume_sum is constant or has one month the
\* z_score is exactly 0 (never NaN); in a region whose series is not
\* constant, a month above the region's mean has a positive z_score.
C6_ZScoreZeroOrPositive ==
    AggregateDone =>
        \A i \in 1..Len(aggregated) :
            IF RegionConstant(i)
            THEN aggregated[i].z_score = ZeroScore
            ELSE AboveRegionMean(i) =>
                    /\ aggregated[i].z_score.sign = 1
                    /\ IsFinite(aggregated[i].z_score.sq)
                    /\ aggregated[i].z_score.sq.num > 0

\* a one-month region next to a region with a month above its mean
C6_Witness ==
    /\ AggregateDone
    /\ \E i, j \in 1..Len(aggregated) :
          /\ aggregated[i].state # aggregated[j].state
          /\ Cardinality(RegionSeries(i)) = 1
          /\ aggregated[i].z_score = ZeroScore
          /\ ~RegionConstant(j) /\ AboveRegionMean(j)
          /\ aggregated[j].z_score.sign = 1

EmptyDataFrame == [columns |-> <<>>, index |-> <<>>, cells |-> <<>>, inf_columns |-> {}]

\* DataFrame.empty: no rows or no columns
IsEmpty(t) == Len(t.index) = 0 \/ Len(t.columns) = 0

InColumns(t, name) == \E k \in 1..Len(t.columns) : t.columns[k] = name

\* dtype of a column: text columns are not numeric
TextColumns == {"state", "year_month", "anomaly_confidence"}
IsNumericColumn(name) == name \notin TextColumns

\* df[name] = values: a new column is appended, an existing one overwritten;
\* cells[i] maps the written columns of row i to their values
SetColumn(t, name, values) ==
    [columns |-> IF InColumns(t, name) THEN t.columns ELSE Append(t.columns, name),
     index   |-> t.index,
     inf_columns |-> t.inf_columns \ {name},
     cells   |-> [i \in 1..Len(t.index) |->
                     [c \in (DOMAIN t.cells[i]) \cup {name} |->
                         IF c = name THEN values[i] ELSE t.cells[i][c]]]]

priority_features ==
    <<"enrolment_count_sum", "mom_growth", "enrolment_zscore", "update_ratio", "volatility">>

exclude_cols == {"year", "month", "quarter", "state_encoded"}

\* _get_feature_columns
GetFeatureColumns(t) ==
    LET available == SelectSeq(priority_features, LAMBDA f : InColumns(t, f))
        numeric_cols == SelectSeq(t.columns, IsNumericColumn)
        chosen == IF Len(available) < 3
                  THEN SelectSeq(numeric_cols, LAMBDA c : c \notin exclude_cols)
                  ELSE available
    IN  IF Len(chosen) > 10 THEN SubSeq(chosen, 1, 10) ELSE chosen

Buckets == {"LOW", "MEDIUM", "HIGH", "VERY_HIGH"}

\* what np.zeros_like(scores) holds in each position: the float 0.0
FloatZero == "0.0"

\* x > num/den on floats; False when x is NaN
GreaterThan(x, num, den) == IsFinite(x) /\ x.num * den > num * x.den

\* a mutation of ConfidenceLevel: the labels HIGH and MEDIUM are exchanged
ConfidenceLevelSwapped(score) ==
    IF GreaterThan(score, 8, 10) THEN "VERY_HIGH"
    ELSE IF GreaterThan(score, 6, 10) THEN "MEDIUM"
    ELSE IF GreaterThan(score, 4, 10) THEN "HIGH"
    ELSE "LOW"

\* the if/elif chain of _calculate_confidence on one normalized score
ConfidenceLevel(score) ==
    IF GreaterThan(score, 8, 10) THEN "VERY_HIGH"
    ELSE IF GreaterThan(score, 6, 10) THEN "HIGH"
    ELSE IF GreaterThan(score, 4, 10) THEN "MEDIUM"
    ELSE "LOW"

SeqMin(xs) == CHOOSE m \in Range(xs) : \A x \in Range(xs) : m <= x
SeqMax(xs) == CHOOSE m \in Range(xs) : \A x \in Range(xs) : m >= x

\* whether np.std(scores) == 0 can come out True / False.  Unequal scores
\* have a positive std; one score has std exactly 0; equal scores have a std
\* of 0 or of a rounding residue, depending on their floating-point value.
StdMayBeZero(scores) == \A i, j \in 1..Len(scores) : scores[i] = scores[j]
StdMayBeNonZero(scores) == Len(scores) >= 2

\* _calculate_confidence, given the outcome of np.std(scores) == 0
CalculateConfidence(scores, std_is_zero) ==
    IF Len(scores) = 0 \/ std_is_zero
    THEN [i \in 1..Len(scores) |-> FloatZero]
    ELSE [i \in 1..Len(scores) |->
             ConfidenceLevel(FloatDiv(scores[i] - SeqMin(scores),
                                      SeqMax(scores) - SeqMin(scores)))]

\* anomaly scores, in fifths of the largest score of the model
ScoreLevels == 0..5

ModelTypes == {"isolation_forest", "local_outlier_factor"}

AggregateColumns ==
    <<"state", "year_month", "enrolment_count_sum", "enrolment_count_mean",
      "enrolment_count_std", "update_count_sum", "mom_growth", "z_score", "update_ratio">>

\* column layouts of the tables handed to detect()
Layouts ==
    {AggregateColumns,
     <<>>,
     <<"state", "year_month">>,
     <<"state", "year", "month">>,
     <<"state", "year_month", "enrolment_count_sum", "mom_growth">>,
     <<"state", "f1", "f2", "f3", "f4", "f5", "f6", "f7", "f8", "f9", "f10", "f11">>}

\* columns in which create_features() can leave inf (a growth from zero)
InfiniteCapable == {"mom_growth"}

InitDetect ==
    /\ \E cols \in Layouts, n \in 0..MaxBatch :
          \E infs \in SUBSET (InfiniteCapable \cap Range(cols)) :
             /\ n = 0 => infs = {}
             /\ features_df = [columns |-> cols, index |-> [i \in 1..n |-> i],
                               cells |-> [i \in 1..n |-> <<>>], inf_columns |-> infs]
    /\ handed = features_df
    /\ returned = EmptyDataFrame
    /\ is_fitted = FALSE
    /\ model_type \in ModelTypes
    /\ pc = "detect"
    /\ columns = Idle /\ df = <<>> /\ raw = Idle /\ now = Idle
    /\ run_now = Idle /\ run_out = Idle
    /\ records = Idle /\ aggregated = Idle
    /\ scorer_df = Idle /\ weights = Idle /\ risk_components = Idle
    /\ cluster_df = Idle /\ n_clusters = Idle /\ clustered = Idle
    /\ source = Idle /\ column_mapping = Idle /\ name_matched = Idle /\ field_index = Idle /\ standardized = Idle /\ schema_out = Idle /\ missing_columns = Idle
    /\ explain_df = Idle /\ explanations = Idle
    /\ describe_df = Idle /\ cluster_descriptions = Idle /\ described = Idle

otherThanDetector ==
    <<columns, df, raw, now, run_now, run_out, records, aggregated, handed, model_type,
      scorer_df, weights, risk_components,
      cluster_df, n_clusters, clustered,
      source, column_mapping, name_matched, field_index, standardized, schema_out, missing_columns,
      explain_df, explanations,
      describe_df, cluster_descriptions, described>>

\* detect() on an empty table: a new table without columns is returned
DetectEmpty ==
    /\ pc = "detect"
    /\ IsEmpty(features_df)
    /\ returned' = EmptyDataFrame
    /\ pc' = "done"
    /\ UNCHANGED <<features_df, is_fitted, otherThanDetector>>

\* detect() without a feature column: the caller's table gets two zero
\* columns and is returned
DetectNoFeatures ==
    /\ pc = "detect"
    /\ ~IsEmpty(features_df)
    /\ GetFeatureColumns(features_df) = <<>>
    /\ LET n == Len(features_df.index)
           flagged == SetColumn(features_df, "is_anomaly", [i \in 1..n |-> 0])
           scored == SetColumn(flagged, "anomaly_score", [i \in 1..n |-> 0])
       IN  features_df' = scored /\ returned' = scored
    /\ pc' = "done"
    /\ UNCHANGED <<is_fitted, otherThanDetector>>

\* X = features_df[feature_cols].fillna(0) keeps inf, which
\* StandardScaler.fit_transform rejects with a ValueError
ScalerRejects(t) == Range(GetFeatureColumns(t)) \cap t.inf_columns # {}

\* LocalOutlierFactor.fit queries each row's neighbours among the other rows
\* and raises a ValueError when there is no other row
NeighborsRejects(t) == model_type = "local_outlier_factor" /\ Len(t.index) = 1

FitRaises(t) == ScalerRejects(t) \/ NeighborsRejects(t)

\* detect() with an infinite feature value, or a single row under
\* local_outlier_factor: the exception leaves detect()
DetectRaises ==
    /\ pc = "detect"
    /\ ~IsEmpty(features_df)
    /\ GetFeatureColumns(features_df) # <<>>
    /\ FitRaises(features_df)
    /\ pc' = "raised"
    /\ UNCHANGED <<features_df, returned, is_fitted, otherThanDetector>>

\* detect() with feature columns: the model is fitted; its predictions and
\* scores are whatever the outlier model yields for the batch
DetectFit ==
    /\ pc = "detect"
    /\ ~IsEmpty(features_df)
    /\ GetFeatureColumns(features_df) # <<>>
    /\ ~FitRaises(features_df)
    /\ LET n == Len(features_df.index)
       IN  \E predictions \in [1..n -> {-1, 1}], anomaly_scores \in [1..n -> ScoreLevels],
              std_is_zero \in BOOLEAN :
              /\ std_is_zero => StdMayBeZero(anomaly_scores)
              /\ ~std_is_zero => StdMayBeNonZero(anomaly_scores)
              /\ LET flagged == SetColumn(features_df, "is_anomaly",
                                   [i \in 1..n |-> IF predictions[i] = -1 THEN 1 ELSE 0])
                     scored == SetColumn(flagged, "anomaly_score", anomaly_scores)
                     graded == SetColumn(scored, "anomaly_confidence",
                                   CalculateConfidence(anomaly_scores, std_is_zero))
                 IN  features_df' = graded /\ returned' = graded
    /\ is_fitted' = TRUE
    /\ pc' = "done"
    /\ UNCHANGED otherThanDetector

NextDetect == DetectEmpty \/ DetectNoFeatures \/ DetectRaises \/ DetectFit

SpecDetect == InitDetect /\ [][NextDetect]_vars

(***************************************************************************)
(* Claims about detect()                                                   *)
(***************************************************************************)
DetectDone == pc = "done"

ColumnIs(t, name, value) == \A i \in 1..Len(t.index) : t.cells[i][name] = value

Degenerate(t) == IsEmpty(t) \/ GetFeatureColumns(t) = <<>>

\* C8: detect() on an empty table or on a table without a usable feature
\* column returns a table that has the is_anomaly and anomaly_score columns
\* (also when it has no rows) and every input row, each with is_anomaly = 0
\* and anomaly_score = 0.
C8_AsStated ==
    (DetectDone /\ Degenerate(handed)) =>
        /\ InColumns(returned, "is_anomaly")
        /\ InColumns(returned, "anomaly_score")
        /\ returned.index = handed.index
        /\ ColumnIs(returned, "is_anomaly", 0)
        /\ ColumnIs(returned, "anomaly_score", 0)

\* C9: every row detect() returns carries an anomaly_confidence that is one
\* of LOW, MEDIUM, HIGH, VERY_HIGH, whatever the scores of the batch and
\* whichever path handled it.
C9_AsStated ==
    DetectDone =>
        \A i \in 1..Len(returned.index) :
            /\ InColumns(returned, "anomaly_confidence")
            /\ returned.cells[i]["anomaly_confidence"] \in Buckets

BucketRank(b) ==
    CASE b = "LOW" -> 0 [] b = "MEDIUM" -> 1 [] b = "HIGH" -> 2 [] b = "VERY_HIGH" -> 3

\* x <= y in the order LOW < MEDIUM < HIGH < VERY_HIGH; a value is in
\* relation with itself
BucketLeq(x, y) == x = y \/ (x \in Buckets /\ y \in Buckets /\ BucketRank(x) <= BucketRank(y))

Graded == DetectDone /\ InColumns(returned, "anomaly_confidence")

ScoreOf(i) == returned.cells[i]["anomaly_score"]
BucketOf(i) == returned.cells[i]["anomaly_confidence"]

BatchMin == SeqMin([i \in 1..Len(returned.index) |-> ScoreOf(i)])
BatchMax == SeqMax([i \in 1..Len(returned.index) |-> ScoreOf(i)])

\* the bucket of the thresholds 0.8, 0.6, 0.4 on (s - min) / (max - min),
\* for max > min, in integer arithmetic
ThresholdBucket(s, lo, hi) ==
    IF 10 * (s - lo) > 8 * (hi - lo) THEN "VERY_HIGH"
    ELSE IF 10 * (s - lo) > 6 * (hi - lo) THEN "HIGH"
    ELSE IF 10 * (s - lo) > 4 * (hi - lo) THEN "MEDIUM"
    ELSE "LOW"

\* C10: within one batch graded by detect(), a row whose anomaly_score is at
\* least that of another row has a bucket at least that of the other row in
\* the order LOW < MEDIUM < HIGH < VERY_HIGH, and when the scores of the batch
\* differ each bucket is the one the thresholds 0.8 / 0.6 / 0.4 assign to the
\* min-max normalized score.
C10_BucketsMonotone ==
    Graded =>
        /\ \A a, b \in 1..Len(returned.index) :
              ScoreOf(a) >= ScoreOf(b) => BucketLeq(BucketOf(b), BucketOf(a))
        /\ (Len(returned.index) > 0 /\ BatchMax > BatchMin) =>
              \A a \in 1..Len(returned.index) :
                 BucketOf(a) = ThresholdBucket(ScoreOf(a), BatchMin, BatchMax)

\* a graded batch of three rows in three different buckets
C10_Witness ==
    /\ Graded
    /\ Len(returned.index) = 3
    /\ ScoreOf(1) < ScoreOf(2) /\ ScoreOf(2) < ScoreOf(3)
    /\ BucketOf(1) = "LOW" /\ BucketOf(2) = "HIGH" /\ BucketOf(3) = "VERY_HIGH"

(***************************************************************************)
(* Float arithmetic of the risk scorer                                     *)
(***************************************************************************)
LCM(a, b) == (a \div GCD(a, b)) * b

Zero == Rat(0, 1)
One == Rat(1, 1)
FromInt(n) == Rat(n, 1)

\* a + b over the common denominator l
AddOver(a, b, l) == Rat(a.num * (l \div a.den) + b.num * (l \div b.den), l)

\* a + b on finite floats
RatAdd(a, b) == AddOver(a, b, LCM(a.den, b.den))

RatNeg(a) == [num |-> -a.num, den |-> a.den]
RatSub(a, b) == RatAdd(a, RatNeg(b))

\* a * b with the common factors g1 of a.num, b.den and g2 of b.num, a.den
\* cancelled before multiplying
MulCancelled(a, b, g1, g2) ==
    Rat((a.num \div g1) * (b.num \div g2), (a.den \div g2) * (b.den \div g1))

\* a * b on finite floats
RatMul(a, b) ==
    IF a.num = 0 \/ b.num = 0 THEN Zero
    ELSE MulCancelled(a, b, GCD(Abs(a.num), b.den), GCD(Abs(b.num), a.den))

\* a / b on finite floats, b # 0
RatDiv(a, b) == RatMul(a, Rat(b.den, b.num))

\* a <= b with inf and -inf; False when either is NaN
RatLeq(a, b) ==
    IF IsNaNf(a) \/ IsNaNf(b) THEN FALSE
    ELSE IF a.den = 0 THEN a.num = -1 \/ (b.den = 0 /\ b.num = 1)
    ELSE IF b.den = 0 THEN b.num = 1
    ELSE a.num * b.den <= b.num * a.den

RatLess(a, b) == RatLeq(a, b) /\ a # b

RECURSIVE RatSum(_)
RatSum(xs) == IF xs = <<>> THEN Zero ELSE RatAdd(Head(xs), RatSum(Tail(xs)))

\* largest k in lo..hi with k * k <= n
RECURSIVE ISqrtBetween(_, _, _)
ISqrtBetween(n, lo, hi) ==
    IF lo >= hi THEN lo
    ELSE LET mid == (lo + hi + 1) \div 2
         IN  IF mid * mid <= n THEN ISqrtBetween(n, mid, hi) ELSE ISqrtBetween(n, lo, mid - 1)

\* digits a square root keeps: np.sqrt rounds to the float grid, here to
\* the grid of hundredths
SqrtScale == 100

\* np.sqrt of a float in [0, 4], rounded down to the grid
FloatSqrt(x) ==
    Rat(ISqrtBetween((x.num * SqrtScale * SqrtScale) \div x.den, 0, 2 * SqrtScale), SqrtScale)

\* Series.dropna
DropNaN(xs) == SelectSeq(xs, LAMBDA x : ~IsNaNf(x))

\* the mean of entries none of which is NaN; NaN for no entry or inf - inf
MeanOf(v) ==
    IF v = <<>> THEN NaNf
    ELSE IF \E i \in 1..Len(v) : ~IsFinite(v[i])
         THEN (IF \A i, j \in 1..Len(v) : IsFinite(v[i]) \/ IsFinite(v[j]) \/ v[i] = v[j]
               THEN CHOOSE x \in Range(v) : ~IsFinite(x) ELSE NaNf)
    ELSE RatDiv(RatSum(v), FromInt(Len(v)))

\* Series.mean(): NaN entries are skipped
SeriesMean(xs) == MeanOf(DropNaN(xs))

Square(x) == RatMul(x, x)

\* sum of squared deviations from m over n - 1
VarianceAbout(v, m) ==
    RatDiv(RatSum([i \in 1..Len(v) |-> Square(RatSub(v[i], m))]), FromInt(Len(v) - 1))

\* the square root of a variance, capped at 2 for the grid
StdOfVariance(variance) ==
    IF RatLeq(FromInt(4), variance) THEN FromInt(2) ELSE FloatSqrt(variance)

\* the std (ddof = 1) of entries none of which is NaN; NaN for fewer than
\* two entries and for an infinite entry (inf - inf)
StdOf(v) ==
    IF Len(v) < 2 \/ \E i \in 1..Len(v) : ~IsFinite(v[i]) THEN NaNf
    ELSE StdOfVariance(VarianceAbout(v, MeanOf(v)))

\* Series.std(): NaN entries are skipped
SeriesStd(xs) == StdOf(DropNaN(xs))

\* days from 1970-01-01 to a date written yyyymmdd
DaysFromCivil(ts) ==
    LET m == (ts \div 100) % 100
        d == ts % 100
        y == (ts \div 10000) - (IF m <= 2 THEN 1 ELSE 0)
        era == y \div 400
        yoe == y - era * 400
        mp == (m + 9) % 12
        doy == (153 * mp + 2) \div 5 + d - 1
        doe == yoe * 365 + yoe \div 4 - yoe \div 100 + doy
    IN  era * 146097 + doe - 719468

(***************************************************************************)
(* AadhaarRiskScorer                                                       *)
(* The table handed in is its set of column labels and its rows; a cell of *)
(* a column the table does not have is never read.                         *)
(***************************************************************************)
normalization_ranges ==
    [volume         |-> <<FromInt(0), FromInt(10000000)>>,
     frequency      |-> <<FromInt(0), FromInt(1)>>,
     severity       |-> <<FromInt(0), FromInt(1)>>,
     volatility     |-> <<FromInt(0), Rat(1, 2)>>,
     consistency    |-> <<FromInt(0), FromInt(1)>>,
     update_pattern |-> <<FromInt(0), Rat(3, 10)>>]

\* np.clip(value, min_val, max_val) on a float that is not NaN
NpClip(value, min_val, max_val) ==
    IF RatLess(value, min_val) THEN min_val
    ELSE IF RatLess(max_val, value) THEN max_val
    ELSE value

\* a mutation of NormalizeInRange: the value is not clipped to its range
NormalizeUnclipped(value, min_val, max_val) ==
    IF IsNaNf(value) THEN Zero
    ELSE IF ~IsFinite(value) THEN value
    ELSE RatDiv(RatSub(value, min_val), RatSub(max_val, min_val))

\* lines 111-112 and 126-133 of _normalize_score
NormalizeInRange(value, min_val, max_val) ==
    IF IsNaNf(value) THEN Zero
    ELSE IF RatSub(max_val, min_val) = Zero THEN Zero
    ELSE RatDiv(RatSub(NpClip(value, min_val, max_val), min_val), RatSub(max_val, min_val))

\* _normalize_score
NormalizeScore(value, component_type) ==
    NormalizeInRange(value, normalization_ranges[component_type][1],
                     normalization_ranges[component_type][2])

\* pd.isna(x) -> 0
NaNToZero(x) == IF IsNaNf(x) THEN Zero ELSE x

ComponentNames ==
    <<"volume_risk", "anomaly_frequency_risk", "anomaly_severity_risk",
      "volatility_risk", "consistency_risk", "update_pattern_risk">>

default_weights ==
    [c \in Range(ComponentNames) |->
        CASE c = "volume_risk" -> Rat(15, 100)
          [] c = "anomaly_frequency_risk" -> Rat(25, 100)
          [] c = "anomaly_severity_risk" -> Rat(25, 100)
          [] c = "volatility_risk" -> Rat(15, 100)
          [] c = "consistency_risk" -> Rat(10, 100)
          [] c = "update_pattern_risk" -> Rat(10, 100)]

\* rows of one state, as df.groupby('state') hands them over
StateData(t, state) == SelectSeq(t.rows, LAMBDA r : r.state = state)

ColumnValues(rows, name) == [i \in 1..Len(rows) |-> rows[i][name]]

\* lines 84-88: the consistency component, present when the date span is positive
SpanDays(rows) ==
    LET days == {DaysFromCivil(rows[i].date.ts) : i \in 1..Len(rows)}
    IN  (CHOOSE x \in days : \A y \in days : x >= y) - (CHOOSE x \in days : \A y \in days : x <= y)

ExpectedMonths(rows) == Cardinality({rows[i].year_month : i \in 1..Len(rows)})

ConsistencyRisk(rows) ==
    RatSub(One, NormalizeScore(Rat(ExpectedMonths(rows) * 30, SpanDays(rows)), "consistency"))

\* the keys risk_entry gets for one state, apart from 'state'
EntryKeys(t, rows) ==
    {c \in Range(ComponentNames) :
        \/ c = "volume_risk" /\ "enrolment_count_sum" \in t.columns
        \/ c = "anomaly_frequency_risk" /\ "is_anomaly" \in t.columns
        \/ c = "anomaly_severity_risk" /\ "anomaly_score" \in t.columns
        \/ c = "volatility_risk" /\ "mom_growth" \in t.columns
        \/ c = "consistency_risk" /\ SpanDays(rows) > 0
        \/ c = "update_pattern_risk" /\ "update_ratio" \in t.columns}

\* state_data[state_data['is_anomaly'] == 1]
Flagged(rows) == SelectSeq(rows, LAMBDA r : r.is_anomaly = 1)

\* lines 72-74, avg being the mean anomaly_score of the flagged rows
SeverityOf(avg) == NormalizeScore(NaNToZero(avg), "severity")

\* lines 70-74
SeverityRisk(rows) == SeverityOf(SeriesMean(ColumnValues(Flagged(rows), "anomaly_score")))

\* the value risk_entry holds under one key
EntryValue(rows, c) ==
    CASE c = "volume_risk" ->
            NormalizeScore(FromInt(SumSeq(ColumnValues(rows, "enrolment_count_sum"))), "volume")
      [] c = "anomaly_frequency_risk" ->
            NormalizeScore(Rat(SumSeq(ColumnValues(rows, "is_anomaly")), Len(rows)), "frequency")
      [] c = "anomaly_severity_risk" -> SeverityRisk(rows)
      [] c = "volatility_risk" ->
            NormalizeScore(NaNToZero(SeriesStd(ColumnValues(rows, "mom_growth"))), "volatility")
      [] c = "consistency_risk" -> ConsistencyRisk(rows)
      [] c = "update_pattern_risk" ->
            NormalizeScore(NaNToZero(SeriesStd(ColumnValues(rows, "update_ratio"))), "update_pattern")

EntryOf(t, rows) == [c \in EntryKeys(t, rows) |-> EntryValue(rows, c)]

\* risk_entry of one state, without its 'state' key
RiskEntry(t, state) == EntryOf(t, StateData(t, state))

\* the group keys of df.groupby('state'), sorted
StatesOf(t) == {t.rows[i].state : i \in 1..Len(t.rows)}

RECURSIVE SortStates(_)
SortStates(S) ==
    IF S = {} THEN <<>>
    ELSE LET least == CHOOSE x \in S : \A y \in S : x = y \/ StrLess(x, y)
         IN  <<least>> \o SortStates(S \ {least})

\* _calculate_risk_components: pd.DataFrame(risk_data).fillna(0); a key that
\* some entry has is a column, and an entry without it holds 0 there
FillFrame(order, entries, cols) ==
    [columns |-> cols,
     rows |-> [g \in 1..Len(order) |->
                 [state |-> order[g],
                  components |-> [c \in cols |->
                      IF c \in DOMAIN entries[g] THEN entries[g][c] ELSE Zero]]]]

FrameOf(order, entries) ==
    FillFrame(order, entries, UNION {DOMAIN entries[g] : g \in 1..Len(order)})

EntriesOf(t, order) == FrameOf(order, [g \in 1..Len(order) |-> RiskEntry(t, order[g])])

CalculateRiskComponents(t) == EntriesOf(t, SortStates(StatesOf(t)))

\* {**default_weights, **self.weights}
MergedWeights(configured) ==
    [c \in Range(ComponentNames) |->
        IF c \in DOMAIN configured THEN configured[c] ELSE default_weights[c]]

\* _apply_weights on one row of the component table
NormalizeByTotal(risk_score, total_weight) ==
    IF RatLess(Zero, total_weight) THEN RatDiv(risk_score, total_weight) ELSE risk_score

WeightedOver(used, components, w) ==
    NormalizeByTotal(RatSum([k \in 1..Len(used) |-> RatMul(components[used[k]], w[used[k]])]),
                     RatSum([k \in 1..Len(used) |-> w[used[k]]]))

ApplyWeights(cols, components, configured) ==
    WeightedOver(SelectSeq(ComponentNames, LAMBDA c : c \in cols), components,
                 MergedWeights(configured))

\* a mutation of CategorizeRiskLevel: the bounds are exclusive
CategorizeRiskLevelExclusive(score) ==
    IF RatLess(Rat(8, 10), score) THEN "CRITICAL"
    ELSE IF RatLess(Rat(6, 10), score) THEN "HIGH"
    ELSE IF RatLess(Rat(4, 10), score) THEN "MEDIUM"
    ELSE IF RatLess(Rat(2, 10), score) THEN "LOW"
    ELSE "VERY_LOW"

\* _categorize_risk_level
CategorizeRiskLevel(score) ==
    IF RatLeq(Rat(8, 10), score) THEN "CRITICAL"
    ELSE IF RatLeq(Rat(6, 10), score) THEN "HIGH"
    ELSE IF RatLeq(Rat(4, 10), score) THEN "MEDIUM"
    ELSE IF RatLeq(Rat(2, 10), score) THEN "LOW"
    ELSE "VERY_LOW"

\* whether _calculate_risk_components reads a column the table lacks
\* (KeyError): year_month and date are read for every state, is_anomaly
\* whenever anomaly_score is there
MissingColumnRead(t) ==
    \/ "year_month" \notin t.columns
    \/ "date" \notin t.columns
    \/ ("anomaly_score" \in t.columns /\ "is_anomaly" \notin t.columns)

\* calculate_risk_scores, when no exception leaves it: the component table
\* with risk_score and risk_level, sorted by descending risk_score
EmptyRiskTable == [columns |-> {}, rows |-> <<>>]

ScoredRow(row, score) ==
    [state |-> row.state, components |-> row.components,
     risk_score |-> score, risk_level |-> CategorizeRiskLevel(score)]

\* lines 30-35 on the component table
ScoredRows(comp, configured) ==
    [g \in 1..Len(comp.rows) |->
        ScoredRow(comp.rows[g], ApplyWeights(comp.columns, comp.rows[g].components, configured))]

RECURSIVE SortByScoreDescending(_)
RECURSIVE MoveToFront(_, _)
MoveToFront(rows, top) ==
    <<rows[top]>> \o
    SortByScoreDescending(SubSeq(rows, 1, top - 1) \o SubSeq(rows, top + 1, Len(rows)))

SortByScoreDescending(rows) ==
    IF rows = <<>> THEN <<>>
    ELSE MoveToFront(rows, CHOOSE i \in 1..Len(rows) :
                       /\ \A j \in 1..Len(rows) : RatLeq(rows[j].risk_score, rows[i].risk_score)
                       /\ \A j \in 1..(i - 1) : rows[j].risk_score # rows[i].risk_score)

\* lines 30-47 on the component table
ScoreComponents(comp, configured) ==
    [columns |-> comp.columns \cup {"state", "risk_score", "risk_level"},
     rows |-> SortByScoreDescending(ScoredRows(comp, configured))]

CalculateRiskScores(t, configured) ==
    IF t.rows = <<>> \/ t.columns = {} \/ "state" \notin t.columns THEN EmptyRiskTable
    ELSE ScoreComponents(CalculateRiskComponents(t), configured)

(***************************************************************************)
(* Tables handed to calculate_risk_scores()                                *)
(***************************************************************************)
\* enrolment sum, growth, update ratio, anomaly flag and anomaly score of a row
RiskProfiles ==
    <<[enrolment_count_sum |-> 4000000, mom_growth |-> NaNf, update_ratio |-> Zero,
       is_anomaly |-> 0, anomaly_score |-> Rat(1, 5)],
      [enrolment_count_sum |-> 20000000, mom_growth |-> Rat(1, 2), update_ratio |-> Rat(3, 10),
       is_anomaly |-> 1, anomaly_score |-> Rat(4, 5)],
      [enrolment_count_sum |-> 0, mom_growth |-> Rat(1, 0), update_ratio |-> Rat(1, 10),
       is_anomaly |-> 1, anomaly_score |-> FromInt(2)],
      [enrolment_count_sum |-> 1000000, mom_growth |-> Zero, update_ratio |-> Zero,
       is_anomaly |-> 0, anomaly_score |-> Rat(1, 2)]>>

RiskDates == <<20240115, 20240310, 20240420>>

RiskStates == <<Goa, Kerala>>

RiskRow(s, d, p) ==
    [state |-> RiskStates[s],
     year_month |-> PeriodStr(RiskDates[d] \div 100),
     date |-> Timestamp(RiskDates[d]),
     enrolment_count_sum |-> RiskProfiles[p].enrolment_count_sum,
     mom_growth |-> RiskProfiles[p].mom_growth,
     update_ratio |-> RiskProfiles[p].update_ratio,
     is_anomaly |-> RiskProfiles[p].is_anomaly,
     anomaly_score |-> RiskProfiles[p].anomaly_score]

\* the rows in the order of a state-month table: by state, then by month
\* the rows of the tables: each region with each profile, the first two
\* profiles in January, the third in March and the fourth in April
RiskRowDomain ==
    [k \in 1..(Len(RiskStates) * Len(RiskProfiles)) |->
        RiskRow(((k - 1) \div Len(RiskProfiles)) + 1,
                ((((k - 1) % Len(RiskProfiles)) * Len(RiskDates)) \div Len(RiskProfiles)) + 1,
                ((k - 1) % Len(RiskProfiles)) + 1)]

\* the index sequences of n rows of the domain in table order
RECURSIVE SortedPicks(_, _)
SortedPicks(n, lo) ==
    IF n = 0 THEN {<<>>}
    ELSE UNION {{<<k>> \o rest : rest \in SortedPicks(n - 1, k)} : k \in lo..Len(RiskRowDomain)}

RiskTables ==
    UNION {{[i \in 1..n |-> RiskRowDomain[pick[i]]] : pick \in SortedPicks(n, 1)} :
           n \in 0..MaxRegionRows}

ScorerColumns ==
    {"state", "year_month", "date", "enrolment_count_sum", "mom_growth", "update_ratio",
     "is_anomaly", "anomaly_score"}

\* the aggregate table after detect(): it has no date column
AnnotatedAggregateColumns ==
    Range(AggregateColumns) \cup {"is_anomaly", "anomaly_score", "anomaly_confidence"}

RiskLayouts ==
    {ScorerColumns,
     AnnotatedAggregateColumns,
     {"state", "year_month", "date"},
     {"year_month", "date", "enrolment_count_sum"}}

\* config['ml']['risk_scoring']['weights']
ConfiguredWeights ==
    {<<>>,
     [consistency_risk |-> FromInt(2), volume_risk |-> Zero],
     [c \in Range(ComponentNames) |-> Zero]}

InitScore ==
    /\ \E cols \in RiskLayouts, rows \in RiskTables : scorer_df = [columns |-> cols, rows |-> rows]
    /\ weights \in ConfiguredWeights
    /\ risk_components = Idle
    /\ pc = "score"
    /\ columns = Idle /\ df = <<>> /\ raw = Idle /\ now = Idle
    /\ run_now = Idle /\ run_out = Idle
    /\ records = Idle /\ aggregated = Idle
    /\ features_df = Idle /\ returned = Idle /\ is_fitted = FALSE
    /\ handed = Idle /\ model_type = Idle
    /\ cluster_df = Idle /\ n_clusters = Idle /\ clustered = Idle
    /\ source = Idle /\ column_mapping = Idle /\ name_matched = Idle /\ field_index = Idle /\ standardized = Idle /\ schema_out = Idle /\ missing_columns = Idle
    /\ explain_df = Idle /\ explanations = Idle
    /\ describe_df = Idle /\ cluster_descriptions = Idle /\ described = Idle

otherThanScorer ==
    <<columns, df, raw, now, run_now, run_out, records, aggregated,
      features_df, returned, handed, model_type, is_fitted, scorer_df, weights,
      cluster_df, n_clusters, clustered,
      source, column_mapping, name_matched, field_index, standardized, schema_out, missing_columns,
      explain_df, explanations,
      describe_df, cluster_descriptions, described>>

ScorerEarlyReturn(t) == t.rows = <<>> \/ t.columns = {} \/ "state" \notin t.columns

\* calculate_risk_scores on an empty table or one without a state column
ScoreInvalid ==
    /\ pc = "score"
    /\ ScorerEarlyReturn(scorer_df)
    /\ risk_components' = EmptyRiskTable
    /\ pc' = "done"
    /\ UNCHANGED otherThanScorer

\* calculate_risk_scores left by the KeyError of a missing column
ScoreRaises ==
    /\ pc = "score"
    /\ ~ScorerEarlyReturn(scorer_df)
    /\ MissingColumnRead(scorer_df)
    /\ pc' = "raised"
    /\ UNCHANGED <<risk_components, otherThanScorer>>

ScoreRegions ==
    /\ pc = "score"
    /\ ~ScorerEarlyReturn(scorer_df)
    /\ ~MissingColumnRead(scorer_df)
    /\ risk_components' = CalculateRiskScores(scorer_df, weights)
    /\ pc' = "done"
    /\ UNCHANGED otherThanScorer

NextScore == ScoreInvalid \/ ScoreRaises \/ ScoreRegions

SpecScore == InitScore /\ [][NextScore]_vars

(***************************************************************************)
(* Claims about calculate_risk_scores()                                    *)
(***************************************************************************)
ScoreDone == pc = "done"

RiskRows == 1..Len(risk_components.rows)

\* a float in [0, 1]: finite, hence not NaN
InUnitInterval(x) == IsFinite(x) /\ RatLeq(Zero, x) /\ RatLeq(x, One)

NoneFlagged(state) == Flagged(StateData(scorer_df, state)) = <<>>

\* C11: in every row calculate_risk_scores returns, each sub-score and the
\* weighted risk_score lie in [0, 1] and are not NaN, under the default and
\* under configured non-negative weights; a region without a flagged row has
\* anomaly_severity_risk = 0.
C11_ScoresInUnitInterval ==
    ScoreDone =>
        \A g \in RiskRows :
            LET row == risk_components.rows[g]
            IN  /\ \A c \in DOMAIN row.components : InUnitInterval(row.components[c])
                /\ InUnitInterval(row.risk_score)
                /\ ("anomaly_severity_risk" \in DOMAIN row.components /\ NoneFlagged(row.state))
                      => row.components["anomaly_severity_risk"] = Zero

\* two regions scored under configured weights: one without a flagged row,
\* one whose flagged rows score above the severity range
C11_Witness ==
    /\ ScoreDone
    /\ weights # <<>>
    /\ \E g, h \in RiskRows :
          /\ "anomaly_severity_risk" \in DOMAIN risk_components.rows[g].components
          /\ NoneFlagged(risk_components.rows[g].state)
          /\ risk_components.rows[h].components["anomaly_severity_risk"] = One
          /\ risk_components.rows[h].components["volume_risk"] = One
          /\ RatLess(Zero, risk_components.rows[h].risk_score)

\* the level the claim assigns to a score
StatedLevel(score) ==
    CASE RatLeq(Rat(8, 10), score) -> "CRITICAL"
      [] RatLeq(Rat(6, 10), score) /\ RatLess(score, Rat(8, 10)) -> "HIGH"
      [] RatLeq(Rat(4, 10), score) /\ RatLess(score, Rat(6, 10)) -> "MEDIUM"
      [] RatLeq(Rat(2, 10), score) /\ RatLess(score, Rat(4, 10)) -> "LOW"
      [] RatLess(score, Rat(2, 10)) -> "VERY_LOW"

LevelRank(level) ==
    CASE level = "VERY_LOW" -> 0 [] level = "LOW" -> 1 [] level = "MEDIUM" -> 2
      [] level = "HIGH" -> 3 [] level = "CRITICAL" -> 4

\* the scores 0, 1/20, ..., 1: every threshold and both neighbours of each
ScoreGrid == {Rat(k, 20) : k \in 0..20}

\* C12: _categorize_risk_level gives CRITICAL iff score >= 0.8, HIGH iff
\* 0.6 <= score < 0.8, MEDIUM iff 0.4 <= score < 0.6, LOW iff 0.2 <= score <
\* 0.4 and VERY_LOW iff score < 0.2, so the level never decreases as the score
\* grows, and the risk_level of every returned row is the level of its
\* risk_score.
C12_LevelMatchesScore ==
    /\ \A x \in ScoreGrid : CategorizeRiskLevel(x) = StatedLevel(x)
    /\ \A k \in 1..20 :
          LevelRank(CategorizeRiskLevel(Rat(k - 1, 20))) <= LevelRank(CategorizeRiskLevel(Rat(k, 20)))
    /\ ScoreDone =>
          \A g, h \in RiskRows :
             /\ risk_components.rows[g].risk_level = StatedLevel(risk_components.rows[g].risk_score)
             /\ RatLeq(risk_components.rows[g].risk_score, risk_components.rows[h].risk_score)
                   => LevelRank(risk_components.rows[g].risk_level)
                         <= LevelRank(risk_components.rows[h].risk_level)

\* two regions returned with different levels, one of them at least HIGH
C12_Witness ==
    /\ ScoreDone
    /\ \E g, h \in RiskRows :
          /\ LevelRank(risk_components.rows[g].risk_level) >= 3
          /\ LevelRank(risk_components.rows[h].risk_level) <= 1

\* the components computed for one region, in the order of the weights
ComputedFor(state) ==
    SelectSeq(ComponentNames, LAMBDA c : c \in DOMAIN RiskEntry(scorer_df, state))

\* C13: the risk_score of a region is sum(weight x component) / sum(weight)
\* over the components computed for that region; a component not computed for
\* it is left out of numerator and denominator and is not counted as 0.
C13_AsStated ==
    ScoreDone =>
        \A g \in RiskRows :
            risk_components.rows[g].risk_score =
                WeightedOver(ComputedFor(risk_components.rows[g].state),
                             RiskEntry(scorer_df, risk_components.rows[g].state),
                             MergedWeights(weights))

\* C14: calculate_risk_scores on the aggregate table extended by detect()
\* completes without error and returns one row for each distinct region.
C14_AsStated ==
    (scorer_df.columns = AnnotatedAggregateColumns /\ pc # "score") =>
        /\ ScoreDone
        /\ {risk_components.rows[g].state : g \in RiskRows} = StatesOf(scorer_df)
        /\ Len(risk_components.rows) = Cardinality(StatesOf(scorer_df))

(***************************************************************************)
(* StateClusterer                                                          *)
(* The table handed in is its set of column labels, the state of each row  *)
(* and the columns that hold an infinite value.  KMeans labels are         *)
(* whatever KMeans yields for the scaled state features.                   *)
(***************************************************************************)
\* source column and statistic of each state feature, lines 73-96
StateFeatureSources ==
    [total_enrolments  |-> "enrolment_count_sum", avg_enrolments |-> "enrolment_count_sum",
     std_enrolments    |-> "enrolment_count_sum", total_updates  |-> "update_count_sum",
     avg_update_ratio  |-> "update_ratio",        avg_growth     |-> "mom_growth",
     growth_volatility |-> "mom_growth",          anomaly_frequency |-> "is_anomaly",
     avg_anomaly_score |-> "anomaly_score"]

\* the column whose presence puts a feature into the aggregation, lines 73-88
StateFeatureGuards ==
    [total_enrolments  |-> "enrolment_count_sum", avg_enrolments |-> "enrolment_count_sum",
     std_enrolments    |-> "enrolment_count_sum", total_updates  |-> "update_count_sum",
     avg_update_ratio  |-> "update_count_sum",    avg_growth     |-> "mom_growth",
     growth_volatility |-> "mom_growth",          anomaly_frequency |-> "anomaly_score",
     avg_anomaly_score |-> "anomaly_score"]

\* the feature columns of _prepare_state_features
StateFeatures(t) ==
    {f \in DOMAIN StateFeatureSources :
        StateFeatureGuards[f] \in t.columns /\ StateFeatureSources[f] \in t.columns}

\* the mean of a column with an infinite value is infinite and fillna(0)
\* keeps it; StandardScaler.fit_transform rejects it with a ValueError
ClusterScalerRejects(t) ==
    \E f \in StateFeatures(t) :
        f \in {"avg_growth", "avg_update_ratio", "avg_anomaly_score"}
        /\ StateFeatureSources[f] \in t.inf_columns

\* the states of the table, sorted: one row of state_features each
RegionsOf(t) == SortStates({t.states[i] : i \in 1..Len(t.states)})

\* KMeans.fit_predict raises a ValueError for fewer samples than clusters
KMeansRejects(t, k) == Len(RegionsOf(t)) < k

\* silhouette_score raises a ValueError unless 2 <= labels <= samples - 1;
\* it is called when there is more than one label
SilhouetteRejects(labels) ==
    Cardinality(Range(labels)) > 1 /\ Cardinality(Range(labels)) > Len(labels) - 1

\* _add_cluster_descriptions: one description per non-empty cluster in
\* ascending cluster number, then looked up by position; a description is
\* written as the cluster number it describes, NoDescription is NaN
NoDescription == -1

NonEmptyClusters(labels, k) ==
    SelectSeq([c \in 1..k |-> c - 1], LAMBDA c : \E i \in 1..Len(labels) : labels[i] = c)

DescriptionFor(labels, k, cluster) ==
    IF cluster + 1 <= Len(NonEmptyClusters(labels, k))
    THEN NonEmptyClusters(labels, k)[cluster + 1] ELSE NoDescription

ClusteredFrame(regions, labels, k) ==
    [g \in 1..Len(regions) |->
        [state |-> regions[g], cluster |-> labels[g], cluster_label |-> labels[g] + 1,
         cluster_description |-> DescriptionFor(labels, k, labels[g])]]

Assam == <<"A","s","s","a","m">>
Bihar == <<"B","i","h","a","r">>

ClusterStates == <<Assam, Bihar, Goa, Kerala>>

RECURSIVE SortedPicksOf(_, _, _)
SortedPicksOf(n, lo, hi) ==
    IF n = 0 THEN {<<>>}
    ELSE UNION {{<<k>> \o rest : rest \in SortedPicksOf(n - 1, k, hi)} : k \in lo..hi}

ClusterLayouts ==
    {AnnotatedAggregateColumns,
     {"state", "year_month", "enrolment_count_sum"},
     {"state", "year_month"},
     {"year_month", "enrolment_count_sum"}}

\* config['ml']['clustering']['n_clusters']; 5 is the default
ClusterCounts == {2, 3, 5}

InitCluster ==
    /\ \E cols \in ClusterLayouts, n \in 0..MaxClusterRows :
          \E pick \in SortedPicksOf(n, 1, Len(ClusterStates)),
             infs \in SUBSET (InfiniteCapable \cap cols) :
             /\ n = 0 => infs = {}
             /\ cluster_df = [columns |-> cols,
                              states |-> [i \in 1..n |-> ClusterStates[pick[i]]],
                              inf_columns |-> infs]
    /\ n_clusters \in ClusterCounts
    /\ clustered = <<>>
    /\ pc = "cluster"
    /\ columns = Idle /\ df = <<>> /\ raw = Idle /\ now = Idle
    /\ run_now = Idle /\ run_out = Idle
    /\ records = Idle /\ aggregated = Idle
    /\ features_df = Idle /\ returned = Idle /\ is_fitted = FALSE
    /\ handed = Idle /\ model_type = Idle
    /\ scorer_df = Idle /\ weights = Idle /\ risk_components = Idle
    /\ source = Idle /\ column_mapping = Idle /\ name_matched = Idle /\ field_index = Idle /\ standardized = Idle /\ schema_out = Idle /\ missing_columns = Idle
    /\ explain_df = Idle /\ explanations = Idle
    /\ describe_df = Idle /\ cluster_descriptions = Idle /\ described = Idle

otherThanClustered ==
    <<columns, df, raw, now, run_now, run_out, records, aggregated,
      features_df, returned, handed, model_type, is_fitted,
      scorer_df, weights, risk_components, cluster_df, n_clusters,
      source, column_mapping, name_matched, field_index, standardized, schema_out, missing_columns,
      explain_df, explanations,
      describe_df, cluster_descriptions, described>>

ClusterEarlyReturn(t) ==
    Len(t.states) = 0 \/ t.columns = {} \/ "state" \notin t.columns \/ StateFeatures(t) = {}

\* cluster() on an empty table, one without a state column or one without a
\* feature column: pd.DataFrame() is returned
ClusterInvalid ==
    /\ pc = "cluster"
    /\ ClusterEarlyReturn(cluster_df)
    /\ clustered' = <<>>
    /\ pc' = "done"
    /\ UNCHANGED otherThanClustered

\* cluster() left by the ValueError of the scaler or of KMeans
ClusterFitRaises ==
    /\ pc = "cluster"
    /\ ~ClusterEarlyReturn(cluster_df)
    /\ ClusterScalerRejects(cluster_df) \/ KMeansRejects(cluster_df, n_clusters)
    /\ pc' = "raised"
    /\ UNCHANGED <<clustered, otherThanClustered>>

\* cluster() left by the ValueError of silhouette_score
ClusterSilhouetteRaises ==
    /\ pc = "cluster"
    /\ ~ClusterEarlyReturn(cluster_df)
    /\ ~ClusterScalerRejects(cluster_df) /\ ~KMeansRejects(cluster_df, n_clusters)
    /\ \E labels \in [1..Len(RegionsOf(cluster_df)) -> 0..(n_clusters - 1)] :
          SilhouetteRejects(labels)
    /\ pc' = "raised"
    /\ UNCHANGED <<clustered, otherThanClustered>>

ClusterFit ==
    /\ pc = "cluster"
    /\ ~ClusterEarlyReturn(cluster_df)
    /\ ~ClusterScalerRejects(cluster_df) /\ ~KMeansRejects(cluster_df, n_clusters)
    /\ \E labels \in [1..Len(RegionsOf(cluster_df)) -> 0..(n_clusters - 1)] :
          /\ ~SilhouetteRejects(labels)
          /\ clustered' = ClusteredFrame(RegionsOf(cluster_df), labels, n_clusters)
    /\ pc' = "done"
    /\ UNCHANGED otherThanClustered

NextCluster == ClusterInvalid \/ ClusterFitRaises \/ ClusterSilhouetteRaises \/ ClusterFit

SpecCluster == InitCluster /\ [][NextCluster]_vars

ClusterReturned == pc = "done"

\* C15: for a non-empty aggregate table, also one with fewer distinct regions
\* than n_clusters, cluster() completes without error and returns one row for
\* each distinct region, each with an integer cluster id in [0, n_clusters).
C15_AsStated ==
    (pc # "cluster" /\ Len(cluster_df.states) > 0
        /\ cluster_df.columns = AnnotatedAggregateColumns) =>
        /\ ClusterReturned
        /\ [g \in 1..Len(clustered) |-> clustered[g].state] = RegionsOf(cluster_df)
        /\ \A g \in 1..Len(clustered) : clustered[g].cluster \in 0..(n_clusters - 1)

(***************************************************************************)
(* UniversalDataProcessor                                                  *)
(* A file is its columns in table order, each a name and the kind of its   *)
(* values, and its number of rows.  A pattern is written as the text it    *)
(* matches (the pattern age_60\+ as age_60+); the other patterns hold no   *)
(* regular-expression operator.                                            *)
(***************************************************************************)
column_patterns ==
    <<[name |-> "date",
       patterns |-> <<<<"d","a","t","e">>,
                     <<"D","a","t","e">>,
                     <<"D","A","T","E">>,
                     <<"t","i","m","e","s","t","a","m","p">>,
                     <<"T","i","m","e","s","t","a","m","p">>,
                     <<"e","n","r","o","l","m","e","n","t","_","d","a","t","e">>,
                     <<"e","n","r","o","l","l","m","e","n","t","_","d","a","t","e">>,
                     <<"t","i","m","e">>,
                     <<"T","i","m","e">>>>],
      [name |-> "state",
       patterns |-> <<<<"s","t","a","t","e">>,
                     <<"S","t","a","t","e">>,
                     <<"S","T","A","T","E">>,
                     <<"s","t","a","t","e","_","n","a","m","e">>,
                     <<"S","t","a","t","e","_","N","a","m","e">>,
                     <<"S","T","A","T","E","_","N","A","M","E">>,
                     <<"r","e","g","i","o","n">>,
                     <<"R","e","g","i","o","n">>,
                     <<"l","o","c","a","t","i","o","n">>>>],
      [name |-> "district",
       patterns |-> <<<<"d","i","s","t","r","i","c","t">>,
                     <<"D","i","s","t","r","i","c","t">>,
                     <<"D","I","S","T","R","I","C","T">>,
                     <<"d","i","s","t","r","i","c","t","_","n","a","m","e">>,
                     <<"d","i","s","t","r","i","c","t","_","n","a","m","e">>,
                     <<"a","r","e","a">>,
                     <<"A","r","e","a">>,
                     <<"z","o","n","e">>,
                     <<"Z","o","n","e">>>>],
      [name |-> "pincode",
       patterns |-> <<<<"p","i","n","c","o","d","e">>,
                     <<"P","i","n","c","o","d","e">>,
                     <<"P","I","N","C","O","D","E">>,
                     <<"p","i","n">>,
                     <<"P","i","n">>,
                     <<"P","I","N">>,
                     <<"p","o","s","t","a","l","_","c","o","d","e">>,
                     <<"p","o","s","t","a","l">>,
                     <<"z","i","p">>,
                     <<"Z","i","p">>>>],
      [name |-> "enrolment_count",
       patterns |-> <<<<"e","n","r","o","l","m","e","n","t">>,
                     <<"E","n","r","o","l","m","e","n","t">>,
                     <<"e","n","r","o","l","l","m","e","n","t">>,
                     <<"E","n","r","o","l","l","m","e","n","t">>,
                     <<"e","n","r","o","l","m","e","n","t","s">>,
                     <<"e","n","r","o","l","l","m","e","n","t","s">>,
                     <<"c","o","u","n","t">>,
                     <<"C","o","u","n","t">>,
                     <<"t","o","t","a","l">>,
                     <<"v","o","l","u","m","e">>,
                     <<"V","o","l","u","m","e">>,
                     <<"n","u","m","b","e","r">>,
                     <<"N","u","m","b","e","r">>>>],
      [name |-> "update_count",
       patterns |-> <<<<"u","p","d","a","t","e">>,
                     <<"U","p","d","a","t","e">>,
                     <<"u","p","d","a","t","e","s">>,
                     <<"U","p","d","a","t","e","s">>,
                     <<"m","o","d","i","f","i","c","a","t","i","o","n">>,
                     <<"M","o","d","i","f","i","c","a","t","i","o","n">>,
                     <<"c","h","a","n","g","e">>,
                     <<"C","h","a","n","g","e">>,
                     <<"c","o","r","r","e","c","t","i","o","n">>>>],
      [name |-> "age_0_18",
       patterns |-> <<<<"a","g","e","_","0","_","1","8">>,
                     <<"a","g","e","0","_","1","8">>,
                     <<"a","g","e","_","0","_","t","o","_","1","8">>,
                     <<"0","_","1","8">>,
                     <<"u","n","d","e","r","_","1","8">>,
                     <<"m","i","n","o","r">>,
                     <<"M","i","n","o","r">>,
                     <<"c","h","i","l","d","r","e","n">>,
                     <<"C","h","i","l","d","r","e","n">>>>],
      [name |-> "age_19_40",
       patterns |-> <<<<"a","g","e","_","1","9","_","4","0">>,
                     <<"a","g","e","1","9","_","4","0">>,
                     <<"a","g","e","_","1","9","_","t","o","_","4","0">>,
                     <<"1","9","_","4","0">>,
                     <<"a","d","u","l","t">>,
                     <<"A","d","u","l","t">>,
                     <<"y","o","u","n","g","_","a","d","u","l","t">>,
                     <<"y","o","u","n","g">>>>],
      [name |-> "age_41_60",
       patterns |-> <<<<"a","g","e","_","4","1","_","6","0">>,
                     <<"a","g","e","4","1","_","6","0">>,
                     <<"a","g","e","_","4","1","_","t","o","_","6","0">>,
                     <<"4","1","_","6","0">>,
                     <<"m","i","d","d","l","e","_","a","g","e">>,
                     <<"m","i","d","d","l","e">>,
                     <<"m","i","d","_","a","g","e">>>>],
      [name |-> "age_60_plus",
       patterns |-> <<<<"a","g","e","_","6","0","_","p","l","u","s">>,
                     <<"a","g","e","6","0","_","p","l","u","s">>,
                     <<"a","g","e","_","6","0","+">>,
                     <<"6","0","_","p","l","u","s">>,
                     <<"s","e","n","i","o","r">>,
                     <<"S","e","n","i","o","r">>,
                     <<"e","l","d","e","r","l","y">>,
                     <<"E","l","d","e","r","l","y">>,
                     <<"o","l","d">>>>]>>

\* str.lower / re.IGNORECASE
LowerText(text) == [i \in 1..Len(text) |-> ToLower(text[i])]

\* re.match('^pattern$', col, re.IGNORECASE)
ExactMatch(pattern, col) == LowerText(pattern) = LowerText(col)

\* whether the text holds the word
Contains(text, word) ==
    \E i \in 1..(Len(text) - Len(word) + 1) : SubSeq(text, i, i + Len(word) - 1) = word

\* re.search(pattern, col, re.IGNORECASE), also keyword in col.lower()
PartialMatch(pattern, col) == Contains(LowerText(col), LowerText(pattern))

ColumnNames(file) == [k \in 1..Len(file.columns) |-> file.columns[k].name]

\* set(exact_matches + partial_matches)
AllMatches(file, pattern) ==
    {c \in Range(ColumnNames(file)) : ExactMatch(pattern, c) \/ PartialMatch(pattern, c)}

\* the index of the first pattern of a field, from the k-th on, that matches
\* a column; 0 for none
RECURSIVE FirstMatchingFrom(_, _, _)
FirstMatchingFrom(file, patterns, k) ==
    IF k > Len(patterns) THEN 0
    ELSE IF AllMatches(file, patterns[k]) # {} THEN k
    ELSE FirstMatchingFrom(file, patterns, k + 1)

FirstMatchingPattern(file, patterns) == FirstMatchingFrom(file, patterns, 1)

\* column_mapping[original_column] = standard_name
Assign(mapping, col, standard_name) ==
    [c \in (DOMAIN mapping) \cup {col} |-> IF c = col THEN standard_name ELSE mapping[c]]

MappedValues(mapping) == {mapping[c] : c \in DOMAIN mapping}

EmptyMapping == [c \in {} |-> "date"]

\* whether pd.to_datetime(sample, errors='raise') returns for a column with
\* at least one value: date text parses, numbers are read as epoch offsets,
\* other text raises
SampleParses(kind) == kind \in {"iso", "number"}

\* lines 91-107: the columns in table order, date given to the first
\* unmapped one whose sample parses while no column is mapped to date
RECURSIVE DetectDateByValues(_, _, _)
DetectDateByValues(file, mapping, k) ==
    IF k > Len(file.columns) THEN mapping
    ELSE IF /\ file.columns[k].name \notin DOMAIN mapping
            /\ file.nrows > 0
            /\ SampleParses(file.columns[k].kind)
            /\ "date" \notin MappedValues(mapping)
         THEN DetectDateByValues(file, Assign(mapping, file.columns[k].name, "date"), k + 1)
         ELSE DetectDateByValues(file, mapping, k + 1)

numeric_keywords == <<<<"t","o","t","a","l">>, <<"c","o","u","n","t">>, <<"s","u","m">>,
                      <<"n","u","m","b","e","r">>>>

\* df.select_dtypes(include=[np.number]): a column of numbers with a row
IsNumericDtype(file, k) == file.columns[k].kind = "number" /\ file.nrows > 0

\* lines 110-121
RECURSIVE DetectNumericCounts(_, _, _)
DetectNumericCounts(file, mapping, k) ==
    IF k > Len(file.columns) THEN mapping
    ELSE IF /\ IsNumericDtype(file, k)
            /\ file.columns[k].name \notin DOMAIN mapping
            /\ \E w \in 1..Len(numeric_keywords) :
                  PartialMatch(numeric_keywords[w], file.columns[k].name)
            /\ "enrolment_count" \notin MappedValues(mapping)
         THEN DetectNumericCounts(file,
                  Assign(mapping, file.columns[k].name, "enrolment_count"), k + 1)
         ELSE DetectNumericCounts(file, mapping, k + 1)

\* a canonical name as the text of a column label
standard_text ==
    [date |-> <<"d","a","t","e">>,
     state |-> <<"s","t","a","t","e">>,
     district |-> <<"d","i","s","t","r","i","c","t">>,
     pincode |-> <<"p","i","n","c","o","d","e">>,
     enrolment_count |-> <<"e","n","r","o","l","m","e","n","t","_","c","o","u","n","t">>,
     update_count |-> <<"u","p","d","a","t","e","_","c","o","u","n","t">>,
     age_0_18 |-> <<"a","g","e","_","0","_","1","8">>,
     age_19_40 |-> <<"a","g","e","_","1","9","_","4","0">>,
     age_41_60 |-> <<"a","g","e","_","4","1","_","6","0">>,
     age_60_plus |-> <<"a","g","e","_","6","0","_","p","l","u","s">>]

\* the label of a column the mapping leaves alone: its own name, which may
\* be the text of a canonical name
LabelOf(name) ==
    IF \E k \in 1..Len(column_patterns) : standard_text[column_patterns[k].name] = name
    THEN (CHOOSE std \in DOMAIN standard_text : standard_text[std] = name)
    ELSE name

\* df.rename(columns=schema['mapping']): the labels in table order
Renamed(file, mapping) ==
    [k \in 1..Len(file.columns) |->
        IF file.columns[k].name \in DOMAIN mapping
        THEN mapping[file.columns[k].name] ELSE LabelOf(file.columns[k].name)]

\* the labels of the renamed table as text
RenamedText(file, mapping) ==
    [k \in 1..Len(file.columns) |->
        IF file.columns[k].name \in DOMAIN mapping
        THEN standard_text[mapping[file.columns[k].name]] ELSE file.columns[k].name]

required_columns == <<"date", "state", "enrolment_count">>

\* missing_columns of process_any_dataset
MissingColumns(labels) == SelectSeq(required_columns, LAMBDA r : r \notin Range(labels))

\* pd.date_range('2023-01-01', periods=n), in days since 2023-01-01
DateRange(n) == [i \in 1..n |-> i - 1]

UnknownState == <<"U","n","k","n","o","w","n","_","S","t","a","t","e">>

\* the placeholder column written for a missing required column
Placeholder(required, n) ==
    CASE required = "date" -> DateRange(n)
      [] required = "state" -> [i \in 1..n |-> UnknownState]
      [] required = "enrolment_count" -> [i \in 1..n |-> 1]

\* lines 159-178: the labels of the standardized table, its row count and the
\* placeholder columns written into it
Standardize(file, mapping) ==
    [columns |-> Renamed(file, mapping) \o MissingColumns(Renamed(file, mapping)),
     nrows |-> file.nrows,
     placeholders |-> [r \in Range(MissingColumns(Renamed(file, mapping))) |->
                          Placeholder(r, file.nrows)]]

\* the dictionary auto_detect_schema returns
SchemaOf(file, mapping) ==
    [mapping |-> mapping,
     original_columns |-> ColumnNames(file),
     detected_columns |-> SetToSeq(MappedValues(mapping))]

ColumnPool ==
    <<[name |-> <<"D","a","t","e">>, kind |-> "iso"],
      [name |-> <<"d","a","t","e">>, kind |-> "iso"],
      [name |-> <<"e","n","r","o","l","m","e","n","t","_","d","a","t","e">>, kind |-> "iso"],
      [name |-> <<"S","t","a","t","e">>, kind |-> "text"],
      [name |-> <<"T","o","t","a","l","_","E","n","r","o","l","m","e","n","t","s">>, kind |-> "number"],
      [name |-> <<"E","n","r","o","l","m","e","n","t","_","A","g","e","n","c","y">>, kind |-> "text"],
      [name |-> <<"w","h","e","n">>, kind |-> "iso"],
      [name |-> <<"r","e","f">>, kind |-> "text"],
      [name |-> <<"a","m","o","u","n","t">>, kind |-> "number"]>>

\* the files: one to MaxColumns different columns of the pool in any order,
\* with no row or two rows (read_csv raises for a file without a header)
RECURSIVE ColumnPicks(_)
ColumnPicks(n) ==
    IF n = 0 THEN {<<>>}
    ELSE {Append(rest, k) : rest \in {r \in ColumnPicks(n - 1) : TRUE},
                            k \in 1..Len(ColumnPool)}

DistinctPicks(n) == {p \in ColumnPicks(n) : \A i, j \in 1..n : i # j => p[i] # p[j]}

RowCounts == {0, 2}

\* a file no encoding reads: df stays None
Unreadable == [readable |-> FALSE, columns |-> <<>>, nrows |-> 0]

InitProcess ==
    /\ \/ source = Unreadable
       \/ \E n \in 1..MaxColumns : \E pick \in DistinctPicks(n), rows \in RowCounts :
             source = [readable |-> TRUE, columns |-> [k \in 1..n |-> ColumnPool[pick[k]]],
                       nrows |-> rows]
    /\ column_mapping = EmptyMapping
    /\ name_matched = {}
    /\ field_index = 1
    /\ standardized = Idle /\ schema_out = Idle /\ missing_columns = <<>>
    /\ pc = "read_csv"
    /\ columns = Idle /\ df = <<>> /\ raw = Idle /\ now = Idle
    /\ run_now = Idle /\ run_out = Idle
    /\ records = Idle /\ aggregated = Idle
    /\ features_df = Idle /\ returned = Idle /\ is_fitted = FALSE
    /\ handed = Idle /\ model_type = Idle
    /\ scorer_df = Idle /\ weights = Idle /\ risk_components = Idle
    /\ cluster_df = Idle /\ n_clusters = Idle /\ clustered = Idle
    /\ explain_df = Idle /\ explanations = Idle
    /\ describe_df = Idle /\ cluster_descriptions = Idle /\ described = Idle

otherThanProcessor ==
    <<columns, df, raw, now, run_now, run_out, records, aggregated,
      features_df, returned, handed, model_type, is_fitted,
      scorer_df, weights, risk_components, cluster_df, n_clusters, clustered, source,
      explain_df, explanations,
      describe_df, cluster_descriptions, described>>

\* lines 141-153: no encoding reads the file
ReadFails ==
    /\ pc = "read_csv"
    /\ ~source.readable
    /\ pc' = "raised"
    /\ UNCHANGED <<column_mapping, name_matched, field_index, standardized, schema_out,
                   missing_columns, otherThanProcessor>>

ReadCsv ==
    /\ pc = "read_csv"
    /\ source.readable
    /\ pc' = "match_patterns"
    /\ UNCHANGED <<column_mapping, name_matched, field_index, standardized, schema_out,
                   missing_columns, otherThanProcessor>>

\* lines 68-88, one canonical field: no pattern of the field matches a column
MatchNothing ==
    /\ pc = "match_patterns"
    /\ field_index <= Len(column_patterns)
    /\ FirstMatchingPattern(source, column_patterns[field_index].patterns) = 0
    /\ field_index' = field_index + 1
    /\ UNCHANGED <<pc, column_mapping, name_matched, standardized, schema_out,
                   missing_columns, otherThanProcessor>>

\* lines 68-88, one canonical field: all_matches[0] of the first matching
\* pattern, any member of the set, is mapped to the field
MatchField ==
    /\ pc = "match_patterns"
    /\ field_index <= Len(column_patterns)
    /\ FirstMatchingPattern(source, column_patterns[field_index].patterns) # 0
    /\ \E original_column \in
            AllMatches(source, column_patterns[field_index].patterns[
                FirstMatchingPattern(source, column_patterns[field_index].patterns)]) :
          column_mapping' = Assign(column_mapping, original_column,
                                   column_patterns[field_index].name)
    /\ name_matched' = name_matched \cup {column_patterns[field_index].name}
    /\ field_index' = field_index + 1
    /\ UNCHANGED <<pc, standardized, schema_out, missing_columns, otherThanProcessor>>

PatternsDone ==
    /\ pc = "match_patterns"
    /\ field_index > Len(column_patterns)
    /\ pc' = "detect_by_values"
    /\ UNCHANGED <<column_mapping, name_matched, field_index, standardized, schema_out,
                   missing_columns, otherThanProcessor>>

\* lines 91-121: the two value-based loops
DetectByValues ==
    /\ pc = "detect_by_values"
    /\ column_mapping' =
          DetectNumericCounts(source, DetectDateByValues(source, column_mapping, 1), 1)
    /\ pc' = "standardize"
    /\ UNCHANGED <<name_matched, field_index, standardized, schema_out, missing_columns,
                   otherThanProcessor>>

\* lines 156-182: rename, placeholders, return
StandardizeAndReturn ==
    /\ pc = "standardize"
    /\ standardized' = Standardize(source, column_mapping)
    /\ missing_columns' = MissingColumns(Renamed(source, column_mapping))
    /\ schema_out' = SchemaOf(source, column_mapping)
    /\ pc' = "done"
    /\ UNCHANGED <<column_mapping, name_matched, field_index, otherThanProcessor>>

NextProcess ==
    \/ ReadFails \/ ReadCsv \/ MatchNothing \/ MatchField \/ PatternsDone
    \/ DetectByValues \/ StandardizeAndReturn

SpecProcess == InitProcess /\ [][NextProcess]_vars

(***************************************************************************)
(* Claims about UniversalDataProcessor                                     *)
(***************************************************************************)
ProcessDone == pc = "done"

\* no canonical field is mapped from two source columns
OneColumnPerField ==
    \A c, d \in DOMAIN column_mapping : column_mapping[c] = column_mapping[d] => c = d

\* a step of auto_detect_schema leaves every assignment already made as it is
AssignmentsKept ==
    \A c \in DOMAIN column_mapping :
        c \in DOMAIN column_mapping' /\ column_mapping'[c] = column_mapping[c]

\* C16 as stated: in auto_detect_schema each canonical field has at most one
\* source column and each source column one canonical field, a column already
\* assigned to an earlier field is never taken by a later one, and an
\* assignment once made is never replaced.
C16_AsStated == [](OneColumnPerField) /\ [][AssignmentsKept]_vars

\* the placeholder columns as the specification words them
StatedPlaceholder(required, n) ==
    CASE required = "date" -> DateRange(n)
      [] required = "state" -> [i \in 1..n |-> Unknown]
      [] required = "enrolment_count" -> [i \in 1..n |-> 1]

\* the returned pair (df_standardized, schema) names the synthesized fields:
\* detected_columns is the entry of schema that lists canonical names
SynthesizedRecorded ==
    missing_columns # <<>> => schema_out.detected_columns = missing_columns

\* C17 as stated: after process_any_dataset the table has date, state and
\* enrolment_count; each unresolved one is filled with its placeholder
\* (sequential dates from the epoch, the literal "Unknown", constant 1) and
\* the synthesized fields are recorded in the returned result.
C17_AsStated ==
    ProcessDone =>
        /\ Range(required_columns) \subseteq Range(standardized.columns)
        /\ \A r \in DOMAIN standardized.placeholders :
              standardized.placeholders[r] = StatedPlaceholder(r, standardized.nrows)
        /\ SynthesizedRecorded

TotalEnrolments == <<"T","o","t","a","l","_","E","n","r","o","l","m","e","n","t","s">>

\* auto_detect_schema has returned
SchemaDetected == pc \in {"standardize", "done"}

\* the column matches some name pattern of the canonical field
MatchesField(col, field) ==
    \E k \in 1..Len(field.patterns) :
        ExactMatch(field.patterns[k], col) \/ PartialMatch(field.patterns[k], col)

enrolment_count_field == column_patterns[5]

\* Total_Enrolments is a column and the only one a volume pattern matches
OnlyVolumeColumn ==
    /\ source.readable
    /\ TotalEnrolments \in Range(ColumnNames(source))
    /\ \A c \in Range(ColumnNames(source)) :
          MatchesField(c, enrolment_count_field) => c = TotalEnrolments

\* the columns the value-based loops map to date in this step
DateByValues == {c \in (DOMAIN column_mapping') \ (DOMAIN column_mapping) :
                    column_mapping'[c] = "date"}

\* the positions of the unassigned columns with a row whose sample parses
ParsingUnassigned ==
    {k \in 1..Len(source.columns) :
        /\ source.columns[k].name \notin DOMAIN column_mapping
        /\ source.nrows > 0
        /\ SampleParses(source.columns[k].kind)}

FirstParsingUnassigned ==
    IF ParsingUnassigned = {} THEN {}
    ELSE {source.columns[CHOOSE k \in ParsingUnassigned :
                            \A j \in ParsingUnassigned : k <= j].name}

FallbackAsStated ==
    /\ Cardinality(DateByValues) <= 1
    /\ "date" \in name_matched => DateByValues = {}
    /\ "date" \notin name_matched => DateByValues = FirstParsingUnassigned

\* C18 as stated: auto_detect_schema maps Total_Enrolments to enrolment_count;
\* with no name match for date the first unassigned column in table order
\* whose sample parses gets date; the value-based fallback assigns date to at
\* most one column and never when a name-based match for date exists.
C18_AsStated ==
    /\ []((SchemaDetected /\ OnlyVolumeColumn) =>
             /\ TotalEnrolments \in DOMAIN column_mapping
             /\ column_mapping[TotalEnrolments] = "enrolment_count")
    /\ [][pc = "detect_by_values" => FallbackAsStated]_vars

\* process_any_dataset has returned or raised
ProcessEnded == pc \in {"done", "raised"}

\* no row is left to work on after the placeholders are written: the
\* placeholders are of row-count length, so a file without rows stays without
ZeroUsableRows == ~source.readable \/ source.nrows = 0

\* C19 as stated: the run aborts with an error propagated to the caller when
\* the input has zero usable rows after fallback synthesis, and only then.
C19_AsStated == ProcessEnded => (pc = "raised" <=> ZeroUsableRows)

(***************************************************************************)
(* AadhaarAnomalyDetector.explain_anomalies                                *)
(* A table is its layout (the name of the column that holds the z-score,   *)
(* if any, and whether it has the columns volatility and is_anomaly) and   *)
(* its rows.                                                               *)
(***************************************************************************)
\* x > num/den on floats: false for NaN
FloatGreater(x, num, den) ==
    IF x.den = 0 THEN x.num > 0 ELSE x.num * den > num * x.den

\* x < num/den on floats: false for NaN
FloatLess(x, num, den) ==
    IF x.den = 0 THEN x.num < 0 ELSE x.num * den < num * x.den

\* abs(x)
FloatAbs(x) == [num |-> Abs(x.num), den |-> x.den]

\* the text appended for a check, without its formatted number
ExtremeVolume == "Extreme enrolment volume"
SuddenIncrease == "Sudden increase"
SuddenDecrease == "Sudden decrease"
HighUpdateRatio == "High update ratio"
LowUpdateRatio == "Low update ratio"
HighVolatility == "High volatility"

\* lines 169-170
VolumeReasons(layout, row) ==
    IF layout.zcol = "enrolment_zscore" /\ FloatGreater(FloatAbs(row.zscore), 3, 1)
    THEN <<ExtremeVolume>> ELSE <<>>

\* lines 173-175
GrowthReasons(row) ==
    IF FloatGreater(FloatAbs(row.mom_growth), 1, 2)
    THEN IF FloatGreater(row.mom_growth, 0, 1) THEN <<SuddenIncrease>>
         ELSE <<SuddenDecrease>>
    ELSE <<>>

\* lines 178-182
UpdateReasons(row) ==
    IF FloatGreater(row.update_ratio, 1, 2) THEN <<HighUpdateRatio>>
    ELSE IF FloatLess(row.update_ratio, 1, 20) THEN <<LowUpdateRatio>>
    ELSE <<>>

\* lines 185-186
VolatilityReasons(layout, row) ==
    IF layout.volatility /\ FloatGreater(row.volatility, 1, 2)
    THEN <<HighVolatility>> ELSE <<>>

\* reasons of one row, lines 166-186
Reasons(layout, row) ==
    VolumeReasons(layout, row) \o GrowthReasons(row) \o UpdateReasons(row)
        \o VolatilityReasons(layout, row)

GenericAction == "Review data quality and verify with field teams"

\* lines 193-196
RecommendedAction(row) ==
    IF FloatGreater(row.anomaly_score, 8, 10) THEN "Immediate investigation required"
    ELSE IF FloatGreater(row.anomaly_score, 6, 10) THEN "Priority review recommended"
    ELSE GenericAction

\* the explanation built from the reasons of a row, lines 154-196
ExplanationOf(row, reasons) ==
    [state |-> row.state,
     anomaly_score |-> row.anomaly_score,
     primary_reason |-> IF reasons # <<>> THEN Head(reasons) ELSE "",
     supporting_factors |-> IF Len(reasons) > 1 THEN Tail(reasons) ELSE <<>>,
     recommended_action |-> RecommendedAction(row)]

\* df[df['is_anomaly'] == 1]
FlaggedRows(table) == SelectSeq(table.rows, LAMBDA row : row.is_anomaly = 1)

\* lines 153-200 for a table with flagged rows
ExplainRows(layout, rows) ==
    [k \in 1..Len(rows) |-> ExplanationOf(rows[k], Reasons(layout, rows[k]))]

ZScoreColumns == {"enrolment_zscore", "z_score", "none"}

ExplainLayouts ==
    {[zcol |-> z, volatility |-> v, is_anomaly |-> TRUE] :
        z \in ZScoreColumns, v \in BOOLEAN}
    \cup {[zcol |-> "z_score", volatility |-> FALSE, is_anomaly |-> FALSE]}

\* the flagged rows: every combination of the feature values around the
\* thresholds; two rows that are not flagged
FlaggedRowDomain ==
    {[state |-> "Goa", is_anomaly |-> 1, zscore |-> z, mom_growth |-> g,
      update_ratio |-> u, volatility |-> v, anomaly_score |-> a] :
        z \in {Rat(0, 1), Rat(-7, 2)},
        g \in {Rat(0, 1), Rat(-3, 5), Rat(1, 0), NaNf},
        u \in {Rat(1, 50), Rat(1, 5), Rat(3, 5)},
        v \in {Rat(0, 1), Rat(3, 5)},
        a \in {Rat(1, 2), Rat(9, 10)}}

UnflaggedRowDomain ==
    {[state |-> "Kerala", is_anomaly |-> 0, zscore |-> z, mom_growth |-> z,
      update_ratio |-> Rat(1, 5), volatility |-> Rat(0, 1), anomaly_score |-> Rat(1, 5)] :
        z \in {Rat(0, 1), Rat(4, 1)}}

ExplainRowDomain == FlaggedRowDomain \cup UnflaggedRowDomain

InitExplain ==
    /\ \E layout \in ExplainLayouts, n \in 0..MaxFlagRows :
          \E rows \in [1..n -> ExplainRowDomain] :
             explain_df = [layout |-> layout, rows |-> rows]
    /\ explanations = <<>>
    /\ pc = "explain"
    /\ columns = Idle /\ df = <<>> /\ raw = Idle /\ now = Idle
    /\ run_now = Idle /\ run_out = Idle
    /\ records = Idle /\ aggregated = Idle
    /\ features_df = Idle /\ returned = Idle /\ is_fitted = FALSE
    /\ handed = Idle /\ model_type = Idle
    /\ scorer_df = Idle /\ weights = Idle /\ risk_components = Idle
    /\ cluster_df = Idle /\ n_clusters = Idle /\ clustered = Idle
    /\ source = Idle /\ column_mapping = Idle /\ name_matched = Idle
    /\ field_index = Idle /\ standardized = Idle /\ schema_out = Idle
    /\ missing_columns = Idle
    /\ describe_df = Idle /\ cluster_descriptions = Idle /\ described = Idle

otherThanExplain ==
    <<columns, df, raw, now, run_now, run_out, records, aggregated,
      features_df, returned, handed, model_type, is_fitted,
      scorer_df, weights, risk_components, cluster_df, n_clusters, clustered,
      source, column_mapping, name_matched, field_index, standardized, schema_out,
      missing_columns, explain_df,
      describe_df, cluster_descriptions, described>>

\* lines 144-145: no is_anomaly column
ExplainNoColumn ==
    /\ pc = "explain"
    /\ ~explain_df.layout.is_anomaly
    /\ explanations' = <<>>
    /\ pc' = "done"
    /\ UNCHANGED otherThanExplain

\* lines 147-150: no flagged row
ExplainNoAnomaly ==
    /\ pc = "explain"
    /\ explain_df.layout.is_anomaly
    /\ FlaggedRows(explain_df) = <<>>
    /\ explanations' = <<>>
    /\ pc' = "done"
    /\ UNCHANGED otherThanExplain

\* lines 152-200
ExplainAnomalies ==
    /\ pc = "explain"
    /\ explain_df.layout.is_anomaly
    /\ FlaggedRows(explain_df) # <<>>
    /\ explanations' = ExplainRows(explain_df.layout, FlaggedRows(explain_df))
    /\ pc' = "done"
    /\ UNCHANGED otherThanExplain

NextExplain == ExplainNoColumn \/ ExplainNoAnomaly \/ ExplainAnomalies

SpecExplain == InitExplain /\ [][NextExplain]_vars

(***************************************************************************)
(* Claims about explain_anomalies                                          *)
(***************************************************************************)
ExplainDone == pc = "done"

\* the rows with is_anomaly = 1
StatedFlagged ==
    IF explain_df.layout.is_anomaly THEN FlaggedRows(explain_df) ELSE <<>>

\* the four checks in their fixed order, on the z-score, growth, update
\* ratio and volatility the table holds for the row
StatedChecks(layout, row) ==
    <<[satisfied |-> layout.zcol # "none" /\ FloatGreater(FloatAbs(row.zscore), 3, 1),
       reason |-> ExtremeVolume],
      [satisfied |-> FloatGreater(FloatAbs(row.mom_growth), 1, 2),
       reason |-> IF FloatGreater(row.mom_growth, 0, 1) THEN SuddenIncrease
                  ELSE SuddenDecrease],
      [satisfied |-> FloatGreater(row.update_ratio, 1, 2)
                        \/ FloatLess(row.update_ratio, 1, 20),
       reason |-> IF FloatGreater(row.update_ratio, 1, 2) THEN HighUpdateRatio
                  ELSE LowUpdateRatio],
      [satisfied |-> layout.volatility /\ FloatGreater(row.volatility, 1, 2),
       reason |-> HighVolatility]>>

SatisfiedChecks(layout, row) ==
    SelectSeq(StatedChecks(layout, row), LAMBDA check : check.satisfied)

StatedReasons(layout, row) ==
    [k \in 1..Len(SatisfiedChecks(layout, row)) |-> SatisfiedChecks(layout, row)[k].reason]

ExplainedAsStated(explanation, reasons) ==
    /\ explanation.primary_reason = (IF reasons = <<>> THEN "" ELSE Head(reasons))
    /\ explanation.supporting_factors = (IF reasons = <<>> THEN <<>> ELSE Tail(reasons))
    /\ explanation.recommended_action # ""

\* C20 as stated: explain_anomalies returns exactly one explanation per row
\* with is_anomaly = 1; its primary_reason is the first satisfied check in the
\* order |z-score| > 3, |growth| > 0.5, update_ratio outside [0.05, 0.5],
\* volatility > 0.5, its supporting_factors are the remaining satisfied checks
\* in that order; with no check satisfied primary_reason is empty and
\* recommended_action is not.
C20_AsStated ==
    ExplainDone =>
        /\ Len(explanations) = Len(StatedFlagged)
        /\ \A k \in 1..Len(explanations) :
              ExplainedAsStated(explanations[k],
                                StatedReasons(explain_df.layout, StatedFlagged[k]))

(***************************************************************************)
(* Claims about the order of the stages of clean()                         *)
(***************************************************************************)
\* no two rows of the table have the same (date, state, district) key
DistinctKeys(cols, rows) ==
    \A i, j \in 1..Len(rows) :
        DuplicateKey(cols, rows[i]) = DuplicateKey(cols, rows[j]) => i = j

\* the earliest row of the table with the key of its i-th row
EarliestWithKey(cols, rows, i) ==
    rows[CHOOSE k \in 1..i :
            /\ DuplicateKey(cols, rows[k]) = DuplicateKey(cols, rows[i])
            /\ \A j \in 1..(k - 1) :
                  DuplicateKey(cols, rows[j]) # DuplicateKey(cols, rows[i])]

\* kept is rows with, for every key, its earliest row and no other
EarliestKept(cols, rows, kept) ==
    /\ DistinctKeys(cols, kept)
    /\ \A i \in 1..Len(rows) : EarliestWithKey(cols, rows, i) \in Range(kept)
    /\ \A k \in 1..Len(kept) :
          \E i \in 1..Len(rows) : kept[k] = EarliestWithKey(cols, rows, i)

\* C21: the output of clean() has no two rows with the same normalized
\* (date, state, district) key, and the row retained for a key is the earliest
\* of the rows with that key that the preceding stages left, so a valid row
\* is kept when an earlier row with its key was removed by validation.
C21_EarliestSurvivorKept ==
    /\ [](CleanDone => DistinctKeys(columns, df))
    /\ [][pc = "remove_duplicates" => EarliestKept(columns, df, df')]_vars

\* two rows with one key were handed in, the first with a negative count: the
\* second is the row returned
C21_Witness ==
    /\ CleanDone
    /\ Len(raw.rows) = 2
    /\ raw.rows[1] = [BaseRow EXCEPT !.enrolment_count = Num(-2)]
    /\ raw.rows[2] = BaseRow
    /\ Len(df) = 1
    /\ df[1].enrolment_count = Num(10)

\* str.upper()
UpperText(text) == [i \in 1..Len(text) |-> ToUpper(text[i])]

\* the text is an entry of the alias table in some letter case
IsAlias(text) ==
    \E i \in 1..Len(state_corrections) : UpperText(text) = state_corrections[i][1]

\* C22 as stated: after clean() no row keeps an entry of the alias table, in
\* any letter case, as its region: each has been replaced by its canonical
\* name.
C22_AsStated ==
    (CleanDone /\ HasColumn(columns, "state")) =>
        \A i \in 1..Len(df) : ~IsAlias(Cell(columns, df[i], "state"))

(***************************************************************************)
(* Claims about series with missing months                                 *)
(***************************************************************************)
DigitValue(c) == IndexIn(c, Digits) - 1

\* the number of the calendar month written 'yyyy-mm', counted in months
MonthNumber(ym) ==
    12 * (1000 * DigitValue(ym[1]) + 100 * DigitValue(ym[2]) + 10 * DigitValue(ym[3])
            + DigitValue(ym[4]))
    + 10 * DigitValue(ym[6]) + DigitValue(ym[7])

\* the rows of the region of row i for the calendar month before its month
MonthBefore(i) ==
    {j \in 1..Len(aggregated) :
        /\ aggregated[j].state = aggregated[i].state
        /\ MonthNumber(aggregated[j].year_month) + 1 = MonthNumber(aggregated[i].year_month)}

\* C23 as stated: every non-null mom_growth compares the month of its row with
\* the same region's calendar month immediately before it, also in a series
\* with missing months.
C23_AsStated ==
    AggregateDone =>
        \A i \in 1..Len(aggregated) :
            ~IsNaNf(aggregated[i].mom_growth) =>
                \E j \in MonthBefore(i) :
                    aggregated[i].mom_growth
                        = Rat(aggregated[i].enrolment_count_sum
                                 - aggregated[j].enrolment_count_sum,
                              aggregated[j].enrolment_count_sum)

(***************************************************************************)
(* Claims about the consistency component                                  *)
(***************************************************************************)
\* the calendar months in which the region has a row
MonthsPresent(state) ==
    {MonthNumber(r.year_month) : r \in Range(StateData(scorer_df, state))}

\* the region has a row for every calendar month of its span
CompleteCoverage(state) ==
    \A m \in MonthsPresent(state), n \in MonthsPresent(state) :
        \A k \in m..n : k \in MonthsPresent(state)

\* C24 as stated: the consistency_risk of a region is 0 when the region has a
\* row for every calendar month between its first and last month, and greater
\* than 0 whenever a calendar month inside that span has no row.
C24_AsStated ==
    (ScoreDone /\ "consistency_risk" \in risk_components.columns) =>
        \A g \in RiskRows :
            IF CompleteCoverage(risk_components.rows[g].state)
            THEN risk_components.rows[g].components["consistency_risk"] = Zero
            ELSE RatLess(Zero, risk_components.rows[g].components["consistency_risk"])

(***************************************************************************)
(* Claims about the features and the frame of detect()                     *)
(***************************************************************************)
\* the priority columns create_features() writes: volume sum, growth, z-score
\* and update ratio
AggregatorPriorityColumns == {"enrolment_count_sum", "mom_growth", "z_score", "update_ratio"}

\* C25 as stated: when detect() runs on the table of the aggregator, the
\* selected features contain the aggregator's volume-sum, growth, z-score and
\* update-ratio columns.
C25_AsStated ==
    (DetectDone /\ handed.columns = AggregateColumns /\ ~IsEmpty(handed)) =>
        AggregatorPriorityColumns \subseteq Range(GetFeatureColumns(handed))

\* C26 as stated: detect() does not modify the table passed to it: after the
\* call the caller's table has the columns and values it had before.
C26_AsStated == DetectDone => features_df = handed

detector_outputs == {"is_anomaly", "anomaly_score"}

\* C29 as stated: the features selected by detect() never include is_anomaly
\* or anomaly_score, so detect() on a table it has annotated uses the feature
\* set of the first call, with any number of priority columns.
C29_AsStated ==
    (DetectDone /\ ~IsEmpty(handed)) =>
        /\ Range(GetFeatureColumns(returned)) \cap detector_outputs = {}
        /\ GetFeatureColumns(returned) = GetFeatureColumns(handed)

(***************************************************************************)
(* Claims about the cluster descriptions                                   *)
(***************************************************************************)

\* the description written for a cluster number: "Cluster <id+1>: ..."
OwnDescription(row) == row.cluster

\* C27: every row returned by cluster() carries a cluster_description that is
\* not null and is the description written for the row's own cluster id, for
\* every assignment of regions to cluster ids, also one leaving ids empty.
C27_AsStated ==
    ClusterReturned =>
        \A g \in 1..Len(clustered) :
            /\ clustered[g].cluster_description # NoDescription
            /\ clustered[g].cluster_description = OwnDescription(clustered[g])

(***************************************************************************)
(* StateClusterer._add_cluster_descriptions                                *)
(* The table is state_features after reset_index, with the cluster column  *)
(* cluster() has added: one row for each region, with its cluster number   *)
(* and the features the descriptions read.  A description is a record of   *)
(* the cluster number its text begins with and of the parts appended to    *)
(* it; "" is a part that is not appended.  cluster() reaches the method    *)
(* with at least n_clusters regions and labels silhouette_score accepts.   *)
(***************************************************************************)
MaxDescribedRows == 3

RECURSIVE InsertFloat(_, _)
InsertFloat(x, s) ==
    IF s = <<>> THEN <<x>>
    ELSE IF RatLeq(x, Head(s)) THEN <<x>> \o s
    ELSE <<Head(s)>> \o InsertFloat(x, Tail(s))

RECURSIVE SortFloats(_)
SortFloats(s) == IF s = <<>> THEN <<>> ELSE InsertFloat(Head(s), SortFloats(Tail(s)))

\* the value at position lo + frac of a sorted series, linear interpolation
Interpolated(sorted, lo, frac) ==
    IF frac.num = 0 THEN sorted[lo + 1]
    ELSE RatAdd(sorted[lo + 1], RatMul(frac, RatSub(sorted[lo + 2], sorted[lo + 1])))

\* Series.quantile(num/den): position (n - 1) * num/den of the sorted values
Quantile(xs, num, den) ==
    Interpolated(SortFloats(xs), ((Len(xs) - 1) * num) \div den,
                 Rat(((Len(xs) - 1) * num) % den, den))

\* df[metric], and cluster_data[metric] for the rows of one cluster
MetricColumn(rows, metric) == [i \in 1..Len(rows) |-> rows[i][metric]]

ClusterData(rows, cluster_num) == SelectSeq(rows, LAMBDA r : r.cluster = cluster_num)

\* cluster_data[metric].mean()
ClusterMean(rows, cluster_num, metric) ==
    MeanOf(MetricColumn(ClusterData(rows, cluster_num), metric))

\* lines 177-183
VolumePart(t, cluster_num) ==
    IF "total_enrolments" \notin t.columns THEN ""
    ELSE IF RatLess(Quantile(MetricColumn(t.rows, "total_enrolments"), 3, 4),
                    ClusterMean(t.rows, cluster_num, "total_enrolments"))
         THEN "High Volume"
    ELSE IF RatLess(ClusterMean(t.rows, cluster_num, "total_enrolments"),
                    Quantile(MetricColumn(t.rows, "total_enrolments"), 1, 4))
         THEN "Low Volume"
    ELSE "Medium Volume"

\* lines 185-191
GrowthPart(t, cluster_num) ==
    IF "avg_growth" \notin t.columns THEN ""
    ELSE IF FloatGreater(ClusterMean(t.rows, cluster_num, "avg_growth"), 1, 10)
         THEN "Rapid Growth"
    ELSE IF FloatLess(ClusterMean(t.rows, cluster_num, "avg_growth"), -5, 100)
         THEN "Declining"
    ELSE "Stable"

\* lines 193-197
AnomalyPart(t, cluster_num) ==
    IF "anomaly_frequency" \notin t.columns THEN ""
    ELSE IF FloatGreater(ClusterMean(t.rows, cluster_num, "anomaly_frequency"), 2, 10)
         THEN "High Anomalies"
    ELSE "Low Anomalies"

\* desc of one entry of cluster_stats
DescriptionOf(t, cluster_num) ==
    [cluster |-> cluster_num,
     volume |-> VolumePart(t, cluster_num),
     growth |-> GrowthPart(t, cluster_num),
     anomalies |-> AnomalyPart(t, cluster_num)]

\* cluster_descriptions: one entry for each non-empty cluster, ascending
ClusterDescriptions(t, k) ==
    [p \in 1..Len(NonEmptyClusters(MetricColumn(t.rows, "cluster"), k)) |->
        DescriptionOf(t, NonEmptyClusters(MetricColumn(t.rows, "cluster"), k)[p])]

\* df['cluster'].map(cluster_desc_map), the map keyed by position in the list
MappedDescription(descs, cluster) ==
    IF cluster + 1 <= Len(descs) THEN descs[cluster + 1] ELSE NoDescription

\* feature rows of a region: total_enrolments, avg_growth, anomaly_frequency
FeatureProfiles ==
    <<[total_enrolments |-> Rat(100, 1), avg_growth |-> Rat(-1, 10), anomaly_frequency |-> Zero],
      [total_enrolments |-> Rat(200, 1), avg_growth |-> Rat(1, 50),  anomaly_frequency |-> Rat(1, 10)],
      [total_enrolments |-> Rat(400, 1), avg_growth |-> Rat(2, 25),  anomaly_frequency |-> Rat(3, 20)],
      [total_enrolments |-> Rat(800, 1), avg_growth |-> Rat(1, 2),   anomaly_frequency |-> Rat(1, 2)]>>

DescribedLayouts ==
    {{"total_enrolments", "avg_growth", "anomaly_frequency"},
     {"total_enrolments", "avg_growth"},
     {"total_enrolments"}}

DescribedCounts == {2, 3}

DescribedRow(profile, cluster) ==
    [cluster |-> cluster,
     total_enrolments |-> FeatureProfiles[profile].total_enrolments,
     avg_growth |-> FeatureProfiles[profile].avg_growth,
     anomaly_frequency |-> FeatureProfiles[profile].anomaly_frequency]

InitDescribe ==
    /\ n_clusters \in DescribedCounts
    /\ \E cols \in DescribedLayouts, n \in n_clusters..MaxDescribedRows :
          \E profile \in [1..n -> 1..Len(FeatureProfiles)],
             labels \in [1..n -> 0..(n_clusters - 1)] :
             /\ ~SilhouetteRejects(labels)
             /\ describe_df = [columns |-> cols,
                            rows |-> [i \in 1..n |-> DescribedRow(profile[i], labels[i])]]
    /\ cluster_descriptions = <<>>
    /\ described = <<>>
    /\ pc = "describe"
    /\ columns = Idle /\ df = <<>> /\ raw = Idle /\ now = Idle
    /\ run_now = Idle /\ run_out = Idle
    /\ records = Idle /\ aggregated = Idle
    /\ features_df = Idle /\ returned = Idle /\ is_fitted = FALSE
    /\ handed = Idle /\ model_type = Idle
    /\ scorer_df = Idle /\ weights = Idle /\ risk_components = Idle
    /\ cluster_df = Idle /\ clustered = Idle
    /\ source = Idle /\ column_mapping = Idle /\ name_matched = Idle
    /\ field_index = Idle /\ standardized = Idle /\ schema_out = Idle
    /\ missing_columns = Idle
    /\ explain_df = Idle /\ explanations = Idle

otherThanDescribed ==
    <<columns, df, raw, now, run_now, run_out, records, aggregated,
      features_df, returned, handed, model_type, is_fitted,
      scorer_df, weights, risk_components, cluster_df, n_clusters, clustered,
      source, column_mapping, name_matched, field_index, standardized, schema_out,
      missing_columns, explain_df, explanations, describe_df>>

\* _add_cluster_descriptions on a table with the cluster column
AddClusterDescriptions ==
    /\ pc = "describe"
    /\ cluster_descriptions' = ClusterDescriptions(describe_df, n_clusters)
    /\ described' =
          [i \in 1..Len(describe_df.rows) |->
              [cluster |-> describe_df.rows[i].cluster,
               cluster_description |->
                   MappedDescription(ClusterDescriptions(describe_df, n_clusters),
                                     describe_df.rows[i].cluster)]]
    /\ pc' = "done"
    /\ UNCHANGED otherThanDescribed

NextDescribe == AddClusterDescriptions

SpecDescribe == InitDescribe /\ [][NextDescribe]_vars

DescribeDone == pc = "done"

\* the class the comparison with the two percentiles of the metric gives
StatedClass(mean, all, above, below, between) ==
    IF RatLess(Quantile(all, 3, 4), mean) THEN above
    ELSE IF RatLess(mean, Quantile(all, 1, 4)) THEN below
    ELSE between

StatedPart(t, cluster_num, metric, above, below, between) ==
    StatedClass(ClusterMean(t.rows, cluster_num, metric), MetricColumn(t.rows, metric),
                above, below, between)

\* C28: each description classifies its cluster by comparing the cluster's
\* mean volume, mean growth and mean anomaly frequency with the 75th and the
\* 25th percentile of the same metric over all regions: above the 75th High
\* Volume / Rapid Growth / High Anomalies, below the 25th Low Volume /
\* Declining / Low Anomalies, in between Medium Volume / Stable.
C28_AsStated ==
    DescribeDone =>
        \A p \in 1..Len(cluster_descriptions) :
            /\ "total_enrolments" \in describe_df.columns =>
                  cluster_descriptions[p].volume =
                      StatedPart(describe_df, cluster_descriptions[p].cluster,
                                 "total_enrolments", "High Volume", "Low Volume", "Medium Volume")
            /\ "avg_growth" \in describe_df.columns =>
                  cluster_descriptions[p].growth =
                      StatedPart(describe_df, cluster_descriptions[p].cluster,
                                 "avg_growth", "Rapid Growth", "Declining", "Stable")
            /\ "anomaly_frequency" \in describe_df.columns =>
                  cluster_descriptions[p].anomalies \in
                      {StatedPart(describe_df, cluster_descriptions[p].cluster,
                                  "anomaly_frequency", "High Anomalies", "Low Anomalies",
                                  "High Anomalies"),
                       StatedPart(describe_df, cluster_descriptions[p].cluster,
                                  "anomaly_frequency", "High Anomalies", "Low Anomalies",
                                  "Low Anomalies")}

(***************************************************************************)
(* Claim about the labels of the standardized table                        *)
(***************************************************************************)

\* C30: after the mapping of auto_detect_schema is applied as a rename, the
\* column names of the standardized table are pairwise distinct: no canonical
\* name labels two columns, whatever the distinct names of the file's columns.
C30_AsStated ==
    ProcessDone =>
        \A i, j \in 1..Len(source.columns) :
            i # j => RenamedText(source, schema_out.mapping)[i]
                         # RenamedText(source, schema_out.mapping)[j]

=============================================================================
